---- MODULE Spec2Model ----
(***************************************************************************)
(* Model of src/src/Window_Haiku.cpp: the window backend of ClassiCube for *)
(* the Haiku toolkit host (event queue bridging the BApplication/BWindow   *)
(* looper threads to the application thread) and for the terminal host     *)
(* (signal flags polled by the application thread).                        *)
(***************************************************************************)
EXTENDS Integers, Sequences, FiniteSets, TLC

VARIABLES
    host,            \* which backend is compiled in: "haiku" or "terminal"
    mode,            \* what the environment does: which native messages arrive
    pc,              \* position of each thread
    events_mutex,    \* [created, owner]
    events_count,
    events_capacity,
    events_list,     \* [ptr, mem]: storage pointer and the slots it points to
    app_handle,      \* "NULL" or "CC_BApp"
    launching,       \* BApplication::IsLaunching()
    win_handle,      \* "NULL" or "CC_BWindow"
    app_inbox,       \* B_QUIT_REQUESTED messages posted by Window_Close, not yet dispatched
    msg,             \* the BMessage each looper thread is dispatching
    event,           \* the local CCEvent of each thread
    ret,             \* where Events_Push returns to, per thread
    last_buttons,
    open_panel,      \* "NULL" or "BFilePanel"
    open_callback,   \* "NULL" or the callback given to Window_OpenFileDialog
    WindowInfo,      \* [Exists, Width, Height, Focused]
    found,           \* result of the pump's last Events_Pull
    budget,          \* native messages each looper may still receive
    fault,           \* "none", or the undefined behaviour that was hit
    pushed,          \* history: records passed to Events_Push, per producer
    pulled,          \* history: records returned by successful Events_Pull calls
    raised,          \* history: notifications raised by Window_ProcessEvents
    pe,              \* history of the Window_ProcessEvents call in progress
    calls,           \* history: the calls of UpdateMouseButtons
    DisplayInfo,     \* [Width, Height]
    pendingResize,   \* terminal host: flag set by sigwinch_handler
    pendingClose,    \* terminal host: flag set by sigterm_handler
    Window_Main,     \* terminal host: [Exists, Width, Height, Focused]
    ws,              \* terminal host: the terminal's size, [ws_col, ws_row]
    tty,             \* terminal host: [attrs, tio]: line discipline, saved copy;
                     \* size: the terminal's size; out: characters written to
                     \* it; frame: the last call of Window_DrawFramebuffer
    sigs             \* terminal host: signals and reads still to come

vars == << host, mode, pc, events_mutex, events_count, events_capacity, events_list,
           app_handle, launching, win_handle, app_inbox, msg, event, ret,
           last_buttons, open_panel, open_callback, WindowInfo, found, budget,
           fault, pushed, pulled, raised, pe, calls, DisplayInfo, pendingResize,
           pendingClose, Window_Main, ws, tty, sigs >>

\* the state of the terminal host, except DisplayInfo
termvars == << pendingResize, pendingClose, Window_Main, ws, tty, sigs >>

\* the state of the open-file dialog of the toolkit host
dialogvars == << open_panel, open_callback >>

\* the state of the toolkit host, except pc, raised, pe and DisplayInfo
haikuvars == << events_mutex, events_count, events_capacity, events_list,
                app_handle, launching, win_handle, app_inbox, msg, event, ret,
                last_buttons, open_panel, open_callback, WindowInfo, found, budget, fault, pushed, pulled,
                calls >>

----------------------------------------------------------------------------
(* Bounds of the model *)

MaxMsgs      == 2   \* Window_Close calls and native messages, both loopers
MaxFull      == 2   \* the same, when every kind of message may arrive
MaxBurst     == 41  \* messages of a burst that overflows the initial capacity
MaxButtonMsgs == 2  \* button messages with arbitrary masks
MaxLiveMsgs  == 2   \* window messages where the pump's termination is checked
MaxInputReads == 1  \* reads of standard input where the input decoding is checked
MaxFrames    == 1   \* calls of Window_DrawFramebuffer
BmpCols      == 2   \* columns of the terminal where drawing is checked
BmpRows      == 2   \* rows of the terminal where drawing is checked
MaxDialogs   == 2   \* Window_OpenFileDialog calls by the application
MaxRefs      == 2   \* native messages to the application looper while a dialog is used
MaxWinch     == 1   \* terminal host: changes of the terminal's size
MaxSigterm   == 1   \* terminal host: SIGINT/SIGTERM deliveries
MaxReads     == 1   \* terminal host: reads of standard input that return data

----------------------------------------------------------------------------
(* enum CCEventType *)

CC_NONE         == 0
CC_MOUSE_SCROLL == 1
CC_MOUSE_DOWN   == 2
CC_MOUSE_UP     == 3
CC_MOUSE_MOVE   == 4
CC_KEY_DOWN     == 5
CC_KEY_UP       == 6
CC_KEY_INPUT    == 7
CC_WIN_RESIZED  == 8
CC_WIN_FOCUS    == 9
CC_WIN_REDRAW   == 10
CC_WIN_QUIT     == 11

EVENTS_DEFAULT_MAX == 20

Threads   == {"main", "app", "win"}
Producers == {"app", "win"}
NoThread  == "none"

\* struct CCEvent. id is a history field: <<producer, n>> for the n-th record
\* that producer passed to Events_Push, <<"none", 0>> for a record never pushed.
CCEvent(type, v1, v2) == [type |-> type, v1 |-> v1, v2 |-> v2, id |-> <<"none", 0>>]

\* CCEvent event = { 0 };  also the contents of the static events_default[]
ZeroEvent == CCEvent(CC_NONE, 0, 0)

\* an indeterminate slot of freshly allocated storage
GARBAGE_TYPE == -1
Indeterminate == CCEvent(GARBAGE_TYPE, 0, 0)

\* values an uninitialised stack slot of a CCEvent may hold
StackJunk == {0, 77}

----------------------------------------------------------------------------
(* Key identifiers.  The numeric values of the KEY_xxx enumerators are set  *)
(* in Input.h; this file relies only on their being non-zero, distinct and  *)
(* small enough for a cc_uint8.  They are numbered here from 129 upwards,   *)
(* above the ASCII codes that stand for the letter and digit keys.          *)

KeyNames == <<
    "KEY_ESCAPE", "KEY_F1", "KEY_F2", "KEY_F3", "KEY_F4",
    "KEY_F5", "KEY_F6", "KEY_F7", "KEY_F8", "KEY_F9",
    "KEY_F10", "KEY_F11", "KEY_F12", "KEY_PRINTSCREEN", "KEY_SCROLLLOCK",
    "KEY_PAUSE", "KEY_TILDE", "KEY_MINUS", "KEY_EQUALS", "KEY_BACKSPACE",
    "KEY_INSERT", "KEY_HOME", "KEY_PAGEUP", "KEY_NUMLOCK", "KEY_KP_DIVIDE",
    "KEY_KP_MULTIPLY", "KEY_KP_MINUS", "KEY_TAB", "KEY_LBRACKET", "KEY_RBRACKET",
    "KEY_BACKSLASH", "KEY_DELETE", "KEY_END", "KEY_PAGEDOWN", "KEY_KP7",
    "KEY_KP8", "KEY_KP9", "KEY_KP_PLUS", "KEY_CAPSLOCK", "KEY_SEMICOLON",
    "KEY_QUOTE", "KEY_ENTER", "KEY_KP4", "KEY_KP5", "KEY_KP6",
    "KEY_LSHIFT", "KEY_COMMA", "KEY_PERIOD", "KEY_SLASH", "KEY_RSHIFT",
    "KEY_UP", "KEY_KP1", "KEY_KP2", "KEY_KP3", "KEY_KP_ENTER",
    "KEY_LCTRL", "KEY_LALT", "KEY_SPACE", "KEY_RALT", "KEY_RCTRL",
    "KEY_LEFT", "KEY_DOWN", "KEY_RIGHT", "KEY_KP0", "KEY_KP_DECIMAL",
    "KEY_LWIN", "KEY_RWIN", "KEY_LMOUSE", "KEY_RMOUSE", "KEY_MMOUSE",
    "CCKEY_SPACE", "CCMOUSE_L" >>

KEY(name) == 128 + (CHOOSE i \in 1..Len(KeyNames) : KeyNames[i] = name)

key_map == <<
    (* 0x00 *) 0, KEY("KEY_ESCAPE"), KEY("KEY_F1"), KEY("KEY_F2"), KEY("KEY_F3"), KEY("KEY_F4"), KEY("KEY_F5"), KEY("KEY_F6"),
    (* 0x08 *) KEY("KEY_F7"), KEY("KEY_F8"), KEY("KEY_F9"), KEY("KEY_F10"), KEY("KEY_F11"), KEY("KEY_F12"), KEY("KEY_PRINTSCREEN"), KEY("KEY_SCROLLLOCK"),
    (* 0x10 *) KEY("KEY_PAUSE"), KEY("KEY_TILDE"), 49, 50, 51, 52, 53, 54,
    (* 0x18 *) 55, 56, 57, 48, KEY("KEY_MINUS"), KEY("KEY_EQUALS"), KEY("KEY_BACKSPACE"), KEY("KEY_INSERT"),
    (* 0x20 *) KEY("KEY_HOME"), KEY("KEY_PAGEUP"), KEY("KEY_NUMLOCK"), KEY("KEY_KP_DIVIDE"), KEY("KEY_KP_MULTIPLY"), KEY("KEY_KP_MINUS"), KEY("KEY_TAB"), 81,
    (* 0x28 *) 87, 69, 82, 84, 89, 85, 73, 79,
    (* 0x30 *) 80, KEY("KEY_LBRACKET"), KEY("KEY_RBRACKET"), KEY("KEY_BACKSLASH"), KEY("KEY_DELETE"), KEY("KEY_END"), KEY("KEY_PAGEDOWN"), KEY("KEY_KP7"),
    (* 0x38 *) KEY("KEY_KP8"), KEY("KEY_KP9"), KEY("KEY_KP_PLUS"), KEY("KEY_CAPSLOCK"), 65, 83, 68, 70,
    (* 0x40 *) 71, 72, 74, 75, 76, KEY("KEY_SEMICOLON"), KEY("KEY_QUOTE"), KEY("KEY_ENTER"),
    (* 0x48 *) KEY("KEY_KP4"), KEY("KEY_KP5"), KEY("KEY_KP6"), KEY("KEY_LSHIFT"), 90, 88, 67, 86,
    (* 0x50 *) 66, 78, 77, KEY("KEY_COMMA"), KEY("KEY_PERIOD"), KEY("KEY_SLASH"), KEY("KEY_RSHIFT"), KEY("KEY_UP"),
    (* 0x58 *) KEY("KEY_KP1"), KEY("KEY_KP2"), KEY("KEY_KP3"), KEY("KEY_KP_ENTER"), KEY("KEY_LCTRL"), KEY("KEY_LALT"), KEY("KEY_SPACE"), KEY("KEY_RALT"),
    (* 0x60 *) KEY("KEY_RCTRL"), KEY("KEY_LEFT"), KEY("KEY_DOWN"), KEY("KEY_RIGHT"), KEY("KEY_KP0"), KEY("KEY_KP_DECIMAL"), KEY("KEY_LWIN"), 0,
    (* 0x68 *) KEY("KEY_RWIN"), 0, 0, 0, 0, 0, 0, 0 >>

\* Array_Elems(key_map)
key_map_Elems == Len(key_map)

\* static int MapNativeKey(int raw): key_map is indexed from 0 in the source
MapNativeKey(raw) ==
    IF raw >= 0 /\ raw < key_map_Elems THEN key_map[raw + 1] ELSE 0

----------------------------------------------------------------------------
(* Mouse button bits of the toolkit (InterfaceDefs.h) and bit arithmetic on *)
(* non-negative ints                                                        *)

B_PRIMARY_MOUSE_BUTTON   == 1
B_SECONDARY_MOUSE_BUTTON == 2
B_TERTIARY_MOUSE_BUTTON  == 4

RECURSIVE BitAnd(_, _)
BitAnd(a, b) ==
    IF a = 0 \/ b = 0 THEN 0
    ELSE (a % 2) * (b % 2) + 2 * BitAnd(a \div 2, b \div 2)

RECURSIVE BitXor(_, _)
BitXor(a, b) ==
    IF a = 0 THEN b
    ELSE IF b = 0 THEN a
    ELSE ((a + b) % 2) + 2 * BitXor(a \div 2, b \div 2)

----------------------------------------------------------------------------
(* Native messages.  One record shape for every BMessage:                   *)
(*   what      the message code                                             *)
(*   ok, a     whether the first field the handler looks up is found, and   *)
(*             its value ("key", "buttons", "where".x, "be:wheel_delta_y",  *)
(*             "active", "width")                                           *)
(*   ok2, b    the same for the second field ("where".y, "height")          *)
(*   hasBytes, bytes   the "bytes" string of a key message (NUL-terminated, *)
(*             so it holds no zero byte)                                    *)

BMessage(what, ok, a, ok2, b, hasBytes, bytes) ==
    [what |-> what, ok |-> ok, a |-> a, ok2 |-> ok2, b |-> b,
     hasBytes |-> hasBytes, bytes |-> bytes]

NoMessage == BMessage("none", FALSE, 0, FALSE, 0, FALSE, <<>>)

\* native key codes: negative, mapped ('Q'), mapped to 0, one past the table
KeyCodes    == {-1, 39, 103, 112}
\* "bytes" strings: empty, "A", U+00E9 in two bytes, a truncated two-byte form
ByteStrings == {<<>>, <<65>>, <<195, 169>>, <<195>>}
ButtonMasks == 0..7
Deltas      == {-1, 1}

KeyMsgs ==
    { BMessage(w, TRUE, k, FALSE, 0, FALSE, <<>>) :
        w \in {"B_KEY_DOWN", "B_KEY_UP"}, k \in KeyCodes }
    \cup { BMessage(w, TRUE, 39, FALSE, 0, FALSE, <<>>) :
        w \in {"B_UNMAPPED_KEY_DOWN", "B_UNMAPPED_KEY_UP"} }
    \cup { BMessage(w, FALSE, 0, FALSE, 0, FALSE, <<>>) :
        w \in {"B_KEY_DOWN", "B_UNMAPPED_KEY_DOWN", "B_KEY_UP", "B_UNMAPPED_KEY_UP"} }
    \cup { BMessage("B_KEY_DOWN", TRUE, 39, FALSE, 0, TRUE, s) : s \in ByteStrings }
    \cup { BMessage("B_KEY_DOWN", TRUE, k, FALSE, 0, TRUE, <<65>>) : k \in KeyCodes }
    \cup { BMessage("B_KEY_DOWN", FALSE, 0, FALSE, 0, TRUE, <<65>>) }

ButtonMsgs ==
    { BMessage(w, TRUE, m, FALSE, 0, FALSE, <<>>) :
        w \in {"B_MOUSE_DOWN", "B_MOUSE_UP"}, m \in ButtonMasks }
    \cup { BMessage(w, FALSE, 0, FALSE, 0, FALSE, <<>>) :
        w \in {"B_MOUSE_DOWN", "B_MOUSE_UP"} }

PointerMsgs ==
    { BMessage("B_MOUSE_MOVED", TRUE, 3, TRUE, 10, FALSE, <<>>),
      BMessage("B_MOUSE_MOVED", FALSE, 0, FALSE, 0, FALSE, <<>>),
      BMessage("B_MOUSE_WHEEL_CHANGED", FALSE, 0, FALSE, 0, FALSE, <<>>) }
    \cup { BMessage("B_MOUSE_WHEEL_CHANGED", TRUE, d, FALSE, 0, FALSE, <<>>) : d \in Deltas }

WindowMsgs ==
    { BMessage("B_WINDOW_ACTIVATED", TRUE, act, FALSE, 0, FALSE, <<>>) : act \in {0, 1} }
    \cup { BMessage("B_WINDOW_ACTIVATED", FALSE, 0, FALSE, 0, FALSE, <<>>) }
    \cup { BMessage("B_WINDOW_RESIZED", o1, 1023, o2, 767, FALSE, <<>>) :
             o1 \in BOOLEAN, o2 \in BOOLEAN }
    \cup { BMessage(w, FALSE, 0, FALSE, 0, FALSE, <<>>) :
             w \in {"B_WINDOW_MOVED", "B_QUIT_REQUESTED", "_UPDATE_", "B_OTHER"} }

\* the button messages among the messages of every kind: nothing pressed, one
\* button, the other two
SomeButtonMsgs == { m \in ButtonMsgs : m.ok => m.a \in {0, 1, 6} }

\* the button masks 0, PRIMARY, PRIMARY|SECONDARY, SECONDARY, 0
ButtonScript ==
    << 0, B_PRIMARY_MOUSE_BUTTON, B_PRIMARY_MOUSE_BUTTON + B_SECONDARY_MOUSE_BUTTON,
       B_SECONDARY_MOUSE_BUTTON, 0 >>

\* every message the window looper may be handed
WinMsgs == KeyMsgs \cup SomeButtonMsgs \cup PointerMsgs \cup WindowMsgs

\* one message of each shape: two pushes, a key the pump drops, a quit
\* request, an unhandled message
CoreWinMsgs ==
    { BMessage("B_KEY_DOWN", TRUE, 39, FALSE, 0, TRUE, <<65>>),
      BMessage("B_KEY_UP", TRUE, 103, FALSE, 0, FALSE, <<>>),
      BMessage("B_QUIT_REQUESTED", FALSE, 0, FALSE, 0, FALSE, <<>>),
      BMessage("B_OTHER", FALSE, 0, FALSE, 0, FALSE, <<>>) }

\* what the application looper may be handed by the system
AppMsgs ==
    { BMessage(w, FALSE, 0, FALSE, 0, FALSE, <<>>) :
        w \in {"B_QUIT_REQUESTED", "B_REFS_RECEIVED", "B_OTHER"} }
    \cup { BMessage("B_REFS_RECEIVED", TRUE, 0, FALSE, 0, FALSE, <<>>) }

----------------------------------------------------------------------------
(* The environment of the toolkit host *)

\* no looper thread is inside a message handler
Quiet == \A t \in Producers : pc[t] \in {"unborn", "app_new", "app_run", "idle"}

\* in mode "full" the system hands over one message at a time and the
\* application pumps it before the next one arrives
MayReceive == mode = "full" => (pc["main"] = "loop" /\ events_count = 0 /\ Quiet)
MayPump ==
    CASE mode = "full"  -> Quiet
      [] mode = "sweep" -> budget["win"] = 0 /\ pc["win"] = "idle"
      \* in mode "flood" the pump is scheduled once the default storage is
      \* about to fill, and runs against the rest of the burst
      [] mode = "flood" -> \/ events_count >= EVENTS_DEFAULT_MAX - 1
                           \/ budget["win"] = 0 /\ pc["win"] = "idle"
      [] OTHER -> TRUE

\* the messages the system may hand to the window looper next
WinInputs ==
    CASE mode = "full"  -> WinMsgs
      [] mode \in {"sweep", "flood"} ->
            \* the pointer sweeps across the window
            { BMessage("B_MOUSE_MOVED", TRUE, Len(pushed["win"]) + 1,
                       TRUE, 2 * Len(pushed["win"]) + 5, FALSE, <<>>) }
      [] mode = "buttons" -> ButtonMsgs
      [] mode = "script" ->
            \* the buttons go through ButtonScript
            { BMessage(w, TRUE, ButtonScript[(Len(calls) % Len(ButtonScript)) + 1],
                       FALSE, 0, FALSE, <<>>) :
                w \in {"B_MOUSE_DOWN", "B_MOUSE_UP"} }
      [] OTHER          -> CoreWinMsgs

----------------------------------------------------------------------------
(* Helpers of the platform layer that this file calls *)

\* Convert_Utf8ToCodepoint(&cp, data, len): the number of bytes used (0 when
\* the data cannot be decoded) and the codepoint
Convert_Utf8ToCodepoint(data) ==
    LET len == Len(data) IN
    IF len = 0 THEN [used |-> 0, cp |-> 0]
    ELSE IF data[1] <= 127 THEN [used |-> 1, cp |-> data[1]]
    ELSE IF data[1] \div 32 = 6 THEN          \* (data[0] & 0xE0) == 0xC0
        IF len < 2 THEN [used |-> 0, cp |-> 0]
        ELSE [used |-> 2, cp |-> (data[1] % 32) * 64 + (data[2] % 64)]
    ELSE IF data[1] \div 16 = 14 THEN         \* (data[0] & 0xF0) == 0xE0
        IF len < 3 THEN [used |-> 0, cp |-> 0]
        ELSE [used |-> 3,
              cp |-> (data[1] % 16) * 4096 + (data[2] % 64) * 64 + (data[3] % 64)]
    ELSE
        IF len < 4 THEN [used |-> 0, cp |-> 0]
        ELSE [used |-> 4,
              cp |-> (data[1] % 8) * 262144 + (data[2] % 64) * 4096
                     + (data[3] % 64) * 64 + (data[4] % 64)]

\* Utils_Resize(&events_list, &events_capacity, sizeof(CCEvent),
\*              EVENTS_DEFAULT_MAX, expandElems): the capacity grows by
\* expandElems and the storage is replaced by one of that many slots that
\* starts with a copy of the old slots
Utils_Resize(list, capacity, expandElems) ==
    [capacity |-> capacity + expandElems,
     list |-> [ptr |-> "heap",
               mem |-> [i \in 1..(capacity + expandElems) |->
                          IF i <= capacity /\ i <= Len(list.mem) THEN list.mem[i]
                          ELSE Indeterminate]]]

\* Mutex_Lock(events_mutex) by thread t: enabled when the mutex is free
Mutex_Lock(t) ==
    /\ events_mutex.owner = NoThread
    /\ events_mutex' = [events_mutex EXCEPT !.owner = t]

\* Mutex_Unlock(events_mutex)
Mutex_Unlock(t) ==
    events_mutex' = [events_mutex EXCEPT !.owner = NoThread]

----------------------------------------------------------------------------
(* Event queue *)

Goto(t, label) == pc' = [pc EXCEPT ![t] = label]

\* history of a Window_ProcessEvents call: the queue when it started, the
\* records it pulled, the notifications it raised, and whether a close
\* request was queued (toolkit host) or flagged (terminal host) when it started
NoInput == [bytes |-> << >>, tail |-> << >>, ctail |-> << >>]
NoCall == [start |-> << >>, pulled |-> << >>, raised |-> << >>, closing |-> FALSE,
           input |-> NoInput]

\* the records in the queue, head first
Queue == SubSeq(events_list.mem, 1, events_count)

\* static void Events_Init(void), called first thing by Window_Init
Events_Init ==
    /\ host = "haiku"
    /\ pc["main"] = "start"
    /\ events_mutex' = [created |-> TRUE, owner |-> NoThread]
    /\ events_capacity' = EVENTS_DEFAULT_MAX
    /\ events_list' = [ptr |-> "events_default",
                        mem |-> [i \in 1..EVENTS_DEFAULT_MAX |-> ZeroEvent]]
    /\ Goto("main", "runapp")
    /\ UNCHANGED << termvars, dialogvars, DisplayInfo, calls, host, mode, events_count, app_handle, launching, win_handle,
                    app_inbox, msg, event, ret, last_buttons, WindowInfo, found,
                    budget, fault, pushed, pulled, raised, pe >>

\* a call Events_Push(&ev) by producer t that returns to label r; the record
\* gets its history id on the way in
CallEvents_Push(t, ev, r) ==
    LET tagged == [ev EXCEPT !.id = << t, Len(pushed[t]) + 1 >>] IN
    /\ event'  = [event EXCEPT ![t] = tagged]
    /\ pushed' = [pushed EXCEPT ![t] = Append(@, tagged)]
    /\ ret'    = [ret EXCEPT ![t] = r]
    /\ Goto(t, "push_lock")

\* an Events_Push that does not take the mutex
Events_Push_Lock_Skip(t) ==
    /\ pc[t] = "push_lock"
    /\ Goto(t, "push_body")
    /\ UNCHANGED << termvars, dialogvars, DisplayInfo, calls, host, mode, events_mutex,
                    events_count, events_capacity, events_list, app_handle,
                    launching, win_handle, app_inbox, msg, event, ret,
                    last_buttons, WindowInfo, found, budget, fault, pushed,
                    pulled, raised, pe >>

\* Events_Push, line 48: Mutex_Lock(events_mutex)
Events_Push_Lock(t) ==
    /\ pc[t] = "push_lock"
    /\ IF events_mutex.created
       THEN /\ Mutex_Lock(t)
            /\ Goto(t, "push_body")
            /\ UNCHANGED fault
       ELSE /\ fault' = "null_mutex"
            /\ Goto(t, "crashed")
            /\ UNCHANGED events_mutex
    /\ UNCHANGED << termvars, dialogvars, DisplayInfo, calls, host, mode, events_count, events_capacity, events_list, app_handle,
                    launching, win_handle, app_inbox, msg, event, ret,
                    last_buttons, WindowInfo, found, budget, pushed, pulled,
                    raised, pe >>

\* an Events_Push that gives up when the storage is full
Events_Push_Body_Bounded(t) ==
    /\ pc[t] = "push_body"
    /\ IF events_count >= events_capacity
       THEN UNCHANGED << events_list, events_count >>
       ELSE /\ events_list' = [events_list EXCEPT !.mem[events_count + 1] = event[t]]
            /\ events_count' = events_count + 1
    /\ Goto(t, "push_unlock")
    /\ UNCHANGED << termvars, dialogvars, DisplayInfo, calls, host, mode, events_mutex,
                    events_capacity, fault, app_handle, launching, win_handle,
                    app_inbox, msg, event, ret, last_buttons, WindowInfo, found,
                    budget, pushed, pulled, raised, pe >>

\* Events_Push growing the storage one push too late
Events_Push_Body_Late(t) ==
    /\ pc[t] = "push_body"
    /\ LET grown == IF events_count > events_capacity
                    THEN Utils_Resize(events_list, events_capacity, 20)
                    ELSE [capacity |-> events_capacity, list |-> events_list]
           inside == events_count < grown.capacity
                     /\ events_count < Len(grown.list.mem)
       IN  /\ events_capacity' = grown.capacity
           /\ events_list' = IF inside
                             THEN [grown.list EXCEPT !.mem[events_count + 1] = event[t]]
                             ELSE grown.list
           /\ fault' = IF inside THEN fault ELSE "oob_write"
           /\ events_count' = events_count + 1
    /\ Goto(t, "push_unlock")
    /\ UNCHANGED << termvars, dialogvars, DisplayInfo, calls, host, mode, events_mutex,
                    app_handle, launching, win_handle, app_inbox, msg, event,
                    ret, last_buttons, WindowInfo, found, budget, pushed, pulled,
                    raised, pe >>

\* Events_Push, lines 50-54: grow when full, then events_list[events_count++] = *event
Events_Push_Body(t) ==
    /\ pc[t] = "push_body"
    /\ LET grown == IF events_count >= events_capacity
                    THEN Utils_Resize(events_list, events_capacity, 20)
                    ELSE [capacity |-> events_capacity, list |-> events_list]
           inside == events_count < grown.capacity
                     /\ events_count < Len(grown.list.mem)
       IN  /\ events_capacity' = grown.capacity
           /\ events_list' = IF inside
                             THEN [grown.list EXCEPT !.mem[events_count + 1] = event[t]]
                             ELSE grown.list
           /\ fault' = IF inside THEN fault ELSE "oob_write"
           /\ events_count' = events_count + 1
    /\ Goto(t, "push_unlock")
    /\ UNCHANGED << termvars, dialogvars, DisplayInfo, calls, host, mode, events_mutex,
                    app_handle, launching, win_handle, app_inbox, msg, event,
                    ret, last_buttons, WindowInfo, found, budget, pushed, pulled,
                    raised, pe >>

\* Events_Push, line 56: Mutex_Unlock(events_mutex), and return
Events_Push_Unlock(t) ==
    /\ pc[t] = "push_unlock"
    /\ Mutex_Unlock(t)
    /\ Goto(t, ret[t])
    /\ UNCHANGED << termvars, dialogvars, DisplayInfo, calls, host, mode, events_count, events_capacity, events_list, app_handle,
                    launching, win_handle, app_inbox, msg, event, ret,
                    last_buttons, WindowInfo, found, budget, fault, pushed,
                    pulled, raised, pe >>

\* Events_Pull, line 62: Mutex_Lock(events_mutex)
Events_Pull_Lock ==
    /\ pc["main"] = "pull_lock"
    /\ Mutex_Lock("main")
    /\ Goto("main", "pull_body")
    /\ UNCHANGED << termvars, dialogvars, DisplayInfo, calls, host, mode, events_count, events_capacity, events_list, app_handle,
                    launching, win_handle, app_inbox, msg, event, ret,
                    last_buttons, WindowInfo, found, budget, fault, pushed,
                    pulled, raised, pe >>

\* a pull that forgets the loop of lines 66-68
ShiftDown_Stuck(mem, i, count) == mem

\* the loop of lines 66-68, from index i (0-based in the source, slot i+1 here)
RECURSIVE ShiftDown(_, _, _)
ShiftDown(mem, i, count) ==
    IF i < count
    THEN ShiftDown([mem EXCEPT ![i] = mem[i + 1]], i + 1, count)
    ELSE mem

\* an Events_Pull that clears the caller's record when the queue is empty
Events_Pull_Body_Clear ==
    /\ pc["main"] = "pull_body"
    /\ IF events_count # 0
       THEN /\ event' = [event EXCEPT !["main"] = events_list.mem[1]]
            /\ events_list' = [events_list EXCEPT
                                 !.mem = ShiftDown(events_list.mem, 1, events_count)]
            /\ events_count' = events_count - 1
            /\ found' = TRUE
       ELSE /\ found' = FALSE
            /\ event' = [event EXCEPT !["main"] = ZeroEvent]
            /\ UNCHANGED << events_list, events_count >>
    /\ Goto("main", "pull_unlock")
    /\ UNCHANGED << termvars, dialogvars, DisplayInfo, calls, host, mode, events_mutex, events_capacity, app_handle, launching,
                    win_handle, app_inbox, msg, ret, last_buttons, WindowInfo,
                    budget, fault, pushed, pulled, raised, pe >>

\* Events_Pull, lines 64-71
Events_Pull_Body ==
    /\ pc["main"] = "pull_body"
    /\ IF events_count # 0
       THEN /\ event' = [event EXCEPT !["main"] = events_list.mem[1]]
            /\ events_list' = [events_list EXCEPT
                                 !.mem = ShiftDown(events_list.mem, 1, events_count)]
            /\ events_count' = events_count - 1
            /\ found' = TRUE
       ELSE /\ found' = FALSE
            /\ UNCHANGED << event, events_list, events_count >>
    /\ Goto("main", "pull_unlock")
    /\ UNCHANGED << termvars, dialogvars, DisplayInfo, calls, host, mode, events_mutex, events_capacity, app_handle, launching,
                    win_handle, app_inbox, msg, ret, last_buttons, WindowInfo,
                    budget, fault, pushed, pulled, raised, pe >>

\* Events_Pull, lines 73-74: Mutex_Unlock(events_mutex) and return found; the
\* pump's while loop (line 415) goes on to the switch or returns, and with
\* the return the locals and the history of the call are gone
Events_Pull_Unlock ==
    /\ pc["main"] = "pull_unlock"
    /\ Mutex_Unlock("main")
    /\ IF found
       THEN /\ pulled' = Append(pulled, event["main"])
            /\ pe' = [pe EXCEPT !.pulled = Append(@, event["main"])]
            /\ Goto("main", "pe_switch")
            /\ UNCHANGED << event, found >>
       ELSE /\ pe' = NoCall
            /\ event' = [event EXCEPT !["main"] = ZeroEvent]
            /\ found' = FALSE
            /\ Goto("main", "loop")
            /\ UNCHANGED pulled
    /\ UNCHANGED << termvars, dialogvars, DisplayInfo, calls, host, mode, events_count, events_capacity, events_list,
                    app_handle, launching, win_handle, app_inbox, msg, ret,
                    last_buttons, WindowInfo, budget, fault, pushed, raised >>

----------------------------------------------------------------------------
(* Event pump of the toolkit host *)

\* a pump that passes whatever MapNativeKey returned to the input layer
KeyCalls_NoTest(name, raw) == << << name, MapNativeKey(raw), 0 >> >>

\* lines 431-438: key = MapNativeKey(event.v1.i32); if (key) Input_Set...(key).
\* MapNativeKey logs a key it does not know (line 407)
KeyCalls(name, raw) ==
    IF MapNativeKey(raw) # 0
    THEN << << name, MapNativeKey(raw), 0 >> >>
    ELSE << << "Platform_Log2", raw, raw >> >>

\* a pump that negates the wheel delta once more
Notifications_Inverted(ev) ==
    CASE ev.type = CC_MOUSE_SCROLL -> << << "Mouse_ScrollWheel", 0 - ev.v1, 0 >> >>
      [] ev.type = CC_MOUSE_DOWN   -> << << "Input_SetPressed", ev.v1, 0 >> >>
      [] ev.type = CC_MOUSE_UP     -> << << "Input_SetReleased", ev.v1, 0 >> >>
      [] ev.type = CC_MOUSE_MOVE   -> << << "Pointer_SetPosition", ev.v1, ev.v2 >> >>
      [] ev.type = CC_KEY_DOWN     -> KeyCalls("Input_SetPressed", ev.v1)
      [] ev.type = CC_KEY_UP       -> KeyCalls("Input_SetReleased", ev.v1)
      [] ev.type = CC_KEY_INPUT    -> << << "InputEvents.Press", ev.v1, 0 >> >>
      [] ev.type = CC_WIN_RESIZED  -> << << "WindowEvents.Resized", 0, 0 >> >>
      [] ev.type = CC_WIN_FOCUS    -> << << "WindowEvents.FocusChanged", 0, 0 >> >>
      [] ev.type = CC_WIN_REDRAW   -> << << "WindowEvents.RedrawNeeded", 0, 0 >> >>
      [] ev.type = CC_WIN_QUIT     -> << << "WindowEvents.Closing", 0, 0 >> >>
      [] OTHER                     -> << >>

\* the calls made by the switch of Window_ProcessEvents (lines 417-458) for a
\* record, each as << name, a, b >>
Notifications(ev) ==
    CASE ev.type = CC_MOUSE_SCROLL -> << << "Mouse_ScrollWheel", ev.v1, 0 >> >>
      [] ev.type = CC_MOUSE_DOWN   -> << << "Input_SetPressed", ev.v1, 0 >> >>
      [] ev.type = CC_MOUSE_UP     -> << << "Input_SetReleased", ev.v1, 0 >> >>
      [] ev.type = CC_MOUSE_MOVE   -> << << "Pointer_SetPosition", ev.v1, ev.v2 >> >>
      [] ev.type = CC_KEY_DOWN     -> KeyCalls("Input_SetPressed", ev.v1)
      [] ev.type = CC_KEY_UP       -> KeyCalls("Input_SetReleased", ev.v1)
      [] ev.type = CC_KEY_INPUT    -> << << "InputEvents.Press", ev.v1, 0 >> >>
      [] ev.type = CC_WIN_RESIZED  -> << << "WindowEvents.Resized", 0, 0 >> >>
      [] ev.type = CC_WIN_FOCUS    -> << << "WindowEvents.FocusChanged", 0, 0 >> >>
      [] ev.type = CC_WIN_REDRAW   -> << << "WindowEvents.RedrawNeeded", 0, 0 >> >>
      [] ev.type = CC_WIN_QUIT     -> << << "WindowEvents.Closing", 0, 0 >> >>
      [] OTHER                     -> << >>

\* the window state after the switch of Window_ProcessEvents for a record
Dispatched(info, ev) ==
    CASE ev.type = CC_WIN_RESIZED -> [info EXCEPT !.Width = ev.v1, !.Height = ev.v2]
      [] ev.type = CC_WIN_FOCUS   -> [info EXCEPT !.Focused = ev.v1]
      [] ev.type = CC_WIN_QUIT    -> [info EXCEPT !.Exists = FALSE]
      [] OTHER                    -> info

\* Window_ProcessEvents is called (lines 411-415): its local event is not
\* initialised
Window_ProcessEvents ==
    /\ host = "haiku"
    /\ MayPump
    /\ pc["main"] = "loop"
    /\ \E junk \in {GARBAGE_TYPE, CC_WIN_QUIT} :
          event' = [event EXCEPT !["main"] = CCEvent(junk, 0, 0)]
    /\ pe' = [start |-> Queue, pulled |-> << >>, raised |-> << >>, input |-> NoInput,
              closing |-> \E i \in 1..events_count :
                             events_list.mem[i].type = CC_WIN_QUIT]
    /\ Goto("main", "pull_lock")
    /\ UNCHANGED << termvars, dialogvars, DisplayInfo, calls, host, mode, events_mutex, events_count, events_capacity,
                    events_list, app_handle, launching, win_handle, app_inbox,
                    msg, ret, last_buttons, WindowInfo, found, budget, fault,
                    pushed, pulled, raised >>

\* a pump that handles one record per call
Window_ProcessEvents_Dispatch_Once ==
    /\ pc["main"] = "pe_switch"
    /\ WindowInfo' = Dispatched(WindowInfo, event["main"])
    /\ raised' = raised \o Notifications(event["main"])
    /\ pe' = NoCall
    /\ event' = [event EXCEPT !["main"] = ZeroEvent]
    /\ found' = FALSE
    /\ Goto("main", "loop")
    /\ UNCHANGED << termvars, dialogvars, DisplayInfo, calls, host, mode, events_mutex, events_count, events_capacity,
                    events_list, app_handle, launching, win_handle, app_inbox,
                    msg, ret, last_buttons, budget, fault, pushed, pulled >>

\* Window_ProcessEvents, lines 417-458: the switch on the pulled record
Window_ProcessEvents_Dispatch ==
    /\ pc["main"] = "pe_switch"
    /\ WindowInfo' = Dispatched(WindowInfo, event["main"])
    /\ raised' = raised \o Notifications(event["main"])
    /\ pe' = [pe EXCEPT !.raised = @ \o Notifications(event["main"])]
    /\ Goto("main", "pull_lock")
    /\ UNCHANGED << termvars, dialogvars, DisplayInfo, calls, host, mode, events_mutex, events_count, events_capacity,
                    events_list, app_handle, launching, win_handle, app_inbox,
                    msg, event, ret, last_buttons, found, budget, fault, pushed,
                    pulled >>

----------------------------------------------------------------------------
(* Start-up of the toolkit host *)

\* RunApp, lines 239-241: create, start and detach the thread running AppThread
RunApp_Start ==
    /\ pc["main"] = "runapp"
    /\ pc' = [pc EXCEPT !["main"] = "runapp_wait", !["app"] = "app_new"]
    /\ UNCHANGED << termvars, dialogvars, DisplayInfo, calls, host, mode, events_mutex, events_count, events_capacity,
                    events_list, app_handle, launching, win_handle, app_inbox,
                    msg, event, ret, last_buttons, WindowInfo, found, budget,
                    fault, pushed, pulled, raised, pe >>

\* the main screen's frame, as (right, bottom) with left = top = 0
Screens == {<<1023, 767>>}

\* a RunApp that only waits for the application object to exist
RunApp_Poll_NoLaunchTest ==
    /\ pc["main"] = "runapp_wait"
    /\ IF app_handle = "NULL"
       THEN /\ Goto("main", "runapp_wait")
            /\ UNCHANGED DisplayInfo
       ELSE /\ Goto("main", "inited")
            /\ DisplayInfo' = [Width |-> 1024, Height |-> 768]
    /\ UNCHANGED << termvars, dialogvars, calls, host, mode, events_mutex, events_count,
                    events_capacity, events_list, app_handle, launching,
                    win_handle, app_inbox, msg, event, ret, last_buttons,
                    WindowInfo, found, budget, fault, pushed, pulled, raised,
                    pe >>

\* RunApp, lines 244-248, one turn of the loop: sleep, then test; when the loop
\* ends Window_Init goes on to query the screen (lines 254-262).  app_handle
\* is written by the other thread without synchronisation, so the test may
\* still see the null pointer after it has been set
RunApp_Poll ==
    /\ pc["main"] = "runapp_wait"
    /\ \E seen \in {app_handle, "NULL"} :
          IF seen = "NULL" \/ launching
          THEN /\ Goto("main", "runapp_wait")
               /\ UNCHANGED DisplayInfo
          ELSE /\ Goto("main", "inited")
               /\ \E frame \in Screens :
                     DisplayInfo' = [Width |-> frame[1] + 1, Height |-> frame[2] + 1]
    /\ UNCHANGED << termvars, dialogvars, calls, host, mode, events_mutex, events_count,
                    events_capacity, events_list, app_handle, launching,
                    win_handle, app_inbox, msg, event, ret, last_buttons,
                    WindowInfo, found, budget, fault, pushed, pulled, raised,
                    pe >>

\* AppThread, line 229: app_handle = new CC_BApp(); a new BApplication is in
\* its launch phase
AppThread_New ==
    /\ pc["app"] = "app_new"
    /\ app_handle' = "CC_BApp"
    /\ launching' = TRUE
    /\ Goto("app", "app_run")
    /\ UNCHANGED << termvars, dialogvars, DisplayInfo, calls, host, mode, events_mutex, events_count, events_capacity,
                    events_list, win_handle, app_inbox, msg, event, ret,
                    last_buttons, WindowInfo, found, budget, fault, pushed,
                    pulled, raised, pe >>

\* AppThread, line 231: app_handle->Run() ends the launch phase and serves
\* the application looper's messages from then on
AppThread_Run ==
    /\ pc["app"] = "app_run"
    /\ launching' = FALSE
    /\ Goto("app", "idle")
    /\ UNCHANGED << termvars, dialogvars, DisplayInfo, calls, host, mode, events_mutex, events_count, events_capacity,
                    events_list, app_handle, win_handle, app_inbox, msg, event,
                    ret, last_buttons, WindowInfo, found, budget, fault, pushed,
                    pulled, raised, pe >>

\* Window_Create2D / Window_Create3D (lines 281-295) through DoCreateWindow
\* (lines 265-279): the new window's bounds are 0..width-1 by 0..height-1
DoCreateWindow(width, height) ==
    /\ host = "haiku"
    /\ pc["main"] = "inited"
    /\ win_handle' = "CC_BWindow"
    /\ WindowInfo' = [WindowInfo EXCEPT !.Exists = TRUE,
                                         !.Width  = (width - 1) + 1,
                                         !.Height = (height - 1) + 1]
    /\ Goto("main", "created")
    /\ UNCHANGED << termvars, dialogvars, DisplayInfo, calls, host, mode, events_mutex, events_count, events_capacity,
                    events_list, app_handle, launching, app_inbox, msg, event,
                    ret, last_buttons, found, budget, fault, pushed, pulled,
                    raised, pe >>

\* Window_Show, lines 370-374: the first Show() starts the window's looper thread
Window_Show ==
    /\ host = "haiku"
    /\ pc["main"] = "created"
    /\ pc' = [pc EXCEPT !["main"] = "loop", !["win"] = "idle"]
    /\ UNCHANGED << termvars, dialogvars, DisplayInfo, calls, host, mode, events_mutex, events_count, events_capacity,
                    events_list, app_handle, launching, win_handle, app_inbox,
                    msg, event, ret, last_buttons, WindowInfo, found, budget,
                    fault, pushed, pulled, raised, pe >>

\* a Window_Close that also marks the window as gone
Window_Close_Now ==
    /\ host = "haiku"
    /\ pc["main"] = "loop"
    /\ budget["main"] > 0
    /\ budget' = [budget EXCEPT !["main"] = @ - 1]
    /\ app_inbox' = app_inbox + 1
    /\ WindowInfo' = [WindowInfo EXCEPT !.Exists = FALSE]
    /\ UNCHANGED << termvars, dialogvars, DisplayInfo, calls, host, mode, pc, events_mutex, events_count, events_capacity,
                    events_list, app_handle, launching, win_handle, msg, event,
                    ret, last_buttons, found, fault, pushed,
                    pulled, raised, pe >>

\* Window_Close, lines 383-386: post B_QUIT_REQUESTED to the application looper
Window_Close ==
    /\ host = "haiku"
    /\ pc["main"] = "loop"
    /\ budget["main"] > 0
    /\ budget' = [budget EXCEPT !["main"] = @ - 1]
    /\ app_inbox' = app_inbox + 1
    /\ UNCHANGED << termvars, dialogvars, DisplayInfo, calls, host, mode, pc, events_mutex, events_count, events_capacity,
                    events_list, app_handle, launching, win_handle, msg, event,
                    ret, last_buttons, WindowInfo, found, fault, pushed,
                    pulled, raised, pe >>

----------------------------------------------------------------------------
(* Native event translator: the application looper *)

\* a translator that pushes whatever the switch left in event
ShouldPush_Always(ev) == TRUE

\* lines 108 and 222: if (event.type) Events_Push(&event)
ShouldPush(ev) == ev.type # 0

\* the looper t is back in its message loop: the handler's locals are gone
Looper_Idle(t) ==
    /\ msg'   = [msg EXCEPT ![t] = NoMessage]
    /\ event' = [event EXCEPT ![t] = ZeroEvent]
    /\ Goto(t, "idle")
    /\ UNCHANGED << pushed, ret >>

\* the value of event after the switch of CC_BApp::DispatchMessage (lines 87-107)
CC_BApp_event(m) ==
    IF m.what = "B_QUIT_REQUESTED" THEN CCEvent(CC_WIN_QUIT, 0, 0) ELSE ZeroEvent

\* CC_BApp::DispatchMessage(m), lines 86-110, up to its call of Events_Push,
\* to the return of the callback it calls through CallOpenFileCallback (lines
\* 522-525: the "refs" entry is found and open_callback is set) or, when it
\* does neither, to its end
CC_BApp_DispatchMessage(m) ==
    /\ pc["app"] = "idle"
    /\ IF m.what = "B_REFS_RECEIVED" /\ m.ok /\ open_callback # "NULL"
       THEN /\ msg' = [msg EXCEPT !["app"] = m]
            /\ Goto("app", "cofc_527")
            /\ UNCHANGED << event, pushed, ret >>
       ELSE IF ShouldPush(CC_BApp_event(m))
       THEN /\ CallEvents_Push("app", CC_BApp_event(m), "dm_base")
            /\ msg' = [msg EXCEPT !["app"] = m]
       ELSE Looper_Idle("app")
    /\ UNCHANGED << termvars, dialogvars, DisplayInfo, calls, host, mode, events_mutex, events_count, events_capacity,
                    events_list, app_handle, launching, win_handle,
                    last_buttons, WindowInfo, found, fault, pulled, raised, pe >>

\* CallOpenFileCallback, line 526: open_callback = NULL; then lines 108-109 of
\* CC_BApp::DispatchMessage, where event.type is 0
CallOpenFileCallback_Clear ==
    /\ pc["app"] = "cofc_527"
    /\ open_callback' = "NULL"
    /\ Looper_Idle("app")
    /\ UNCHANGED << termvars, open_panel, DisplayInfo, calls, host, mode,
                    events_mutex, events_count, events_capacity, events_list,
                    app_handle, launching, win_handle, app_inbox, last_buttons,
                    WindowInfo, found, budget, fault, pulled, raised, pe >>

\* the callbacks the application passes to Window_OpenFileDialog
Callbacks == {"callback"}

\* Window_OpenFileDialog(args), lines 529-541, called by the application
\* between two frames
Window_OpenFileDialog ==
    /\ host = "haiku"
    /\ mode = "dialog"
    /\ pc["main"] = "loop"
    /\ budget["main"] > 0
    /\ budget' = [budget EXCEPT !["main"] = @ - 1]
    /\ open_panel' = "BFilePanel"
    /\ \E cb \in Callbacks : open_callback' = cb
    /\ UNCHANGED << termvars, DisplayInfo, calls, host, mode, pc, events_mutex,
                    events_count, events_capacity, events_list, app_handle,
                    launching, win_handle, app_inbox, msg, event, ret,
                    last_buttons, WindowInfo, found, fault, pushed, pulled,
                    raised, pe >>

\* the application looper is handed a message by the system
CC_BApp_Native ==
    /\ MayReceive
    /\ budget["app"] > 0
    /\ budget' = [budget EXCEPT !["app"] = @ - 1]
    /\ \E m \in AppMsgs : CC_BApp_DispatchMessage(m)
    /\ UNCHANGED app_inbox

\* the application looper is handed the message posted by Window_Close
CC_BApp_Posted ==
    /\ MayReceive
    /\ app_inbox > 0
    /\ app_inbox' = app_inbox - 1
    /\ CC_BApp_DispatchMessage(BMessage("B_QUIT_REQUESTED", FALSE, 0, FALSE, 0, FALSE, <<>>))
    /\ UNCHANGED budget

\* lines 109 and 224: BApplication::DispatchMessage / BWindow::DispatchMessage,
\* after which the handler returns
Base_DispatchMessage(t) ==
    /\ pc[t] = "dm_base"
    /\ Looper_Idle(t)
    /\ UNCHANGED << termvars, dialogvars, DisplayInfo, calls, host, mode, events_mutex, events_count, events_capacity,
                    events_list, app_handle, launching, win_handle, app_inbox,
                    last_buttons, WindowInfo, found, budget, fault, pulled,
                    raised, pe >>

----------------------------------------------------------------------------
(* Native event translator: the window looper *)

\* a translation that passes the far-edge coordinates of a resize on as they are
CC_BWindow_event_Inclusive(m) ==
    CASE m.what \in {"B_KEY_DOWN", "B_UNMAPPED_KEY_DOWN"} ->
            IF m.ok THEN CCEvent(CC_KEY_DOWN, m.a, 0) ELSE ZeroEvent
      [] m.what \in {"B_KEY_UP", "B_UNMAPPED_KEY_UP"} ->
            IF m.ok THEN CCEvent(CC_KEY_UP, m.a, 0) ELSE ZeroEvent
      [] m.what = "B_MOUSE_MOVED" ->
            IF m.ok THEN CCEvent(CC_MOUSE_MOVE, m.a, m.b) ELSE ZeroEvent
      [] m.what = "B_MOUSE_WHEEL_CHANGED" ->
            IF m.ok THEN CCEvent(CC_MOUSE_SCROLL, 0 - m.a, 0) ELSE ZeroEvent
      [] m.what = "B_WINDOW_ACTIVATED" ->
            IF m.ok THEN CCEvent(CC_WIN_FOCUS, m.a, 0) ELSE ZeroEvent
      [] m.what = "B_WINDOW_RESIZED" ->
            IF m.ok /\ m.ok2 THEN CCEvent(CC_WIN_RESIZED, m.a, m.b)
            ELSE ZeroEvent
      [] m.what = "B_QUIT_REQUESTED" -> CCEvent(CC_WIN_QUIT, 0, 0)
      [] m.what = "_UPDATE_"         -> CCEvent(CC_WIN_REDRAW, 0, 0)
      [] OTHER                       -> ZeroEvent

\* the value of event after the switch of CC_BWindow::DispatchMessage (lines
\* 157-220); B_MOUSE_DOWN and B_MOUSE_UP leave it zero
CC_BWindow_event(m) ==
    CASE m.what \in {"B_KEY_DOWN", "B_UNMAPPED_KEY_DOWN"} ->
            IF m.ok THEN CCEvent(CC_KEY_DOWN, m.a, 0) ELSE ZeroEvent
      [] m.what \in {"B_KEY_UP", "B_UNMAPPED_KEY_UP"} ->
            IF m.ok THEN CCEvent(CC_KEY_UP, m.a, 0) ELSE ZeroEvent
      [] m.what = "B_MOUSE_MOVED" ->
            IF m.ok THEN CCEvent(CC_MOUSE_MOVE, m.a, m.b) ELSE ZeroEvent
      [] m.what = "B_MOUSE_WHEEL_CHANGED" ->
            IF m.ok THEN CCEvent(CC_MOUSE_SCROLL, 0 - m.a, 0) ELSE ZeroEvent
      [] m.what = "B_WINDOW_ACTIVATED" ->
            IF m.ok THEN CCEvent(CC_WIN_FOCUS, m.a, 0) ELSE ZeroEvent
      [] m.what = "B_WINDOW_RESIZED" ->
            IF m.ok /\ m.ok2 THEN CCEvent(CC_WIN_RESIZED, m.a + 1, m.b + 1)
            ELSE ZeroEvent
      [] m.what = "B_QUIT_REQUESTED" -> CCEvent(CC_WIN_QUIT, 0, 0)
      [] m.what = "_UPDATE_"         -> CCEvent(CC_WIN_REDRAW, 0, 0)
      [] OTHER                       -> ZeroEvent

\* the record built by UpdateMouseButton(btn, pressed), lines 134-138; v2 is
\* never set
UpdateMouseButton(btn, pressed, junk) ==
    CCEvent(IF pressed # 0 THEN CC_MOUSE_DOWN ELSE CC_MOUSE_UP, btn, junk)

\* the three tests of UpdateMouseButtons (lines 147-152), in order
ButtonBits == << B_PRIMARY_MOUSE_BUTTON, B_SECONDARY_MOUSE_BUTTON,
                 B_TERTIARY_MOUSE_BUTTON >>
ButtonKeys == << KEY("KEY_LMOUSE"), KEY("KEY_RMOUSE"), KEY("KEY_MMOUSE") >>
ButtonRet  == << "umb_2", "umb_3", "umb_end" >>

\* an UpdateMouseButtons that reports the buttons held, not the changes
Changed_Level(buttons, last) == buttons

\* int changed = buttons ^ last_buttons, line 144
Changed(buttons, last) == BitXor(buttons, last)

\* UpdateMouseButtons(buttons) for the "buttons" of message m, lines 141-154,
\* from its i-th test on, up to the next call of Events_Push; after the last
\* test it stores the shadow state and CC_BWindow::DispatchMessage runs to its
\* end (event.type is 0 there and the message is no B_KEY_DOWN)
UpdateMouseButtons(m, i) ==
    LET changed == Changed(m.a, last_buttons)
        todo    == { k \in i..3 : BitAnd(changed, ButtonBits[k]) # 0 }
    IN  IF todo # {}
        THEN LET k == CHOOSE k \in todo : \A j \in todo : k <= j IN
             /\ \E junk \in StackJunk :
                  CallEvents_Push("win",
                      UpdateMouseButton(ButtonKeys[k],
                                        BitAnd(m.a, ButtonBits[k]), junk),
                      ButtonRet[k])
             /\ msg' = [msg EXCEPT !["win"] = m]
             /\ UNCHANGED last_buttons
        ELSE /\ last_buttons' = m.a
             /\ Looper_Idle("win")

\* a translator that sends no text input
ProcessKeyInput_None(m) == Looper_Idle("win")

\* ProcessKeyInput(msg), lines 120-131, then line 224
ProcessKeyInput(m) ==
    LET conv == Convert_Utf8ToCodepoint(m.bytes) IN
    IF ~m.hasBytes \/ conv.used = 0
    THEN Looper_Idle("win")
    ELSE /\ \E junk \in StackJunk :
              CallEvents_Push("win", CCEvent(CC_KEY_INPUT, conv.cp, junk), "dm_base")
         /\ msg' = [msg EXCEPT !["win"] = m]

\* CC_BWindow::DispatchMessage, lines 223-224
CC_BWindow_AfterPush(m) ==
    IF m.what = "B_KEY_DOWN" THEN ProcessKeyInput(m) ELSE Looper_Idle("win")

\* CC_BWindow::DispatchMessage(m), lines 156-225, up to its first call of
\* Events_Push or, when it pushes nothing, to its end
CC_BWindow_DispatchMessage(m) ==
    /\ pc["win"] = "idle"
    /\ budget["win"] > 0
    /\ budget' = [budget EXCEPT !["win"] = @ - 1]
    /\ IF m.what \in {"B_MOUSE_DOWN", "B_MOUSE_UP"}
       THEN IF m.ok
            THEN /\ UpdateMouseButtons(m, 1)
                 /\ calls' = Append(calls, [buttons |-> m.a, last |-> last_buttons,
                                            base |-> Len(pushed["win"])])
            ELSE Looper_Idle("win") /\ UNCHANGED << last_buttons, calls >>
       ELSE IF ShouldPush(CC_BWindow_event(m))
       THEN /\ CallEvents_Push("win", CC_BWindow_event(m), "dm_line223")
            /\ msg' = [msg EXCEPT !["win"] = m]
            /\ UNCHANGED << last_buttons, calls >>
       ELSE CC_BWindow_AfterPush(m) /\ UNCHANGED << last_buttons, calls >>
    /\ UNCHANGED << termvars, dialogvars, DisplayInfo, host, mode, events_mutex,
                    events_count, events_capacity, events_list, app_handle,
                    launching, win_handle, app_inbox, WindowInfo, found, fault,
                    pulled, raised, pe >>

\* the window looper is handed a message by the system
CC_BWindow_Native ==
    /\ MayReceive
    /\ \E m \in WinInputs : CC_BWindow_DispatchMessage(m)

\* CC_BWindow::DispatchMessage goes on after Events_Push returned from line 222
CC_BWindow_Line223 ==
    /\ pc["win"] = "dm_line223"
    /\ CC_BWindow_AfterPush(msg["win"])
    /\ UNCHANGED << termvars, dialogvars, DisplayInfo, calls, host, mode, events_mutex, events_count, events_capacity,
                    events_list, app_handle, launching, win_handle, app_inbox,
                    last_buttons, WindowInfo, found, budget, fault, pulled,
                    raised, pe >>

\* UpdateMouseButtons goes on after Events_Push returned to UpdateMouseButton
UpdateMouseButtons_Resume ==
    /\ pc["win"] \in {"umb_2", "umb_3", "umb_end"}
    /\ UpdateMouseButtons(msg["win"],
          CASE pc["win"] = "umb_2" -> 2 [] pc["win"] = "umb_3" -> 3 [] OTHER -> 4)
    /\ UNCHANGED << termvars, dialogvars, DisplayInfo, calls, host, mode, events_mutex, events_count, events_capacity,
                    events_list, app_handle, launching, win_handle, app_inbox,
                    WindowInfo, found, budget, fault, pulled, raised, pe >>

----------------------------------------------------------------------------
(* Terminal host *)

\* sizes of the terminal, << columns, rows >>
TermSizes == {<<80, 24>>, <<100, 30>>}

\* the printable characters 0x20..0x7E in the order of their codes, the
\* double quote, the backslash and the backtick by their names
Printable == <<
    " ", "!", "QUOTE", "#", "$", "%", "&", "'", "(", ")", "*", "+", ",", "-", ".", "/",
    "0", "1", "2", "3", "4", "5", "6", "7", "8", "9", ":", ";", "<", "=", ">", "?",
    "@", "A", "B", "C", "D", "E", "F", "G", "H", "I", "J", "K", "L", "M", "N", "O",
    "P", "Q", "R", "S", "T", "U", "V", "W", "X", "Y", "Z", "[", "BACKSLASH", "]", "^", "_",
    "BACKTICK", "a", "b", "c", "d", "e", "f", "g", "h", "i", "j", "k", "l", "m", "n", "o",
    "p", "q", "r", "s", "t", "u", "v", "w", "x", "y", "z", "{", "|", "}", "~" >>

\* the code of a character, and the bytes of a sequence of characters
Ord(c) ==
    CASE c = "NUL" -> 0
      [] c = "ESC" -> 27
      [] c = "DEL" -> 127
      [] OTHER -> 31 + (CHOOSE i \in 1..Len(Printable) : Printable[i] = c)
Str(cs) == [i \in 1..Len(cs) |-> Ord(cs[i])]

\* an SGR mouse report ESC [ < B ; X ; Y T as the terminal sends it; B, X
\* and Y are sequences of digits, T is "M" or "m"
SGR(B, X, Y, T) ==
    Str(<< "ESC", "[", "<" >> \o B \o << ";" >> \o X \o << ";" >> \o Y \o << T >>)

\* complete reports: left button, motion with no button, motion with the
\* left button held
MouseReports ==
    [B : {<< "0" >>, << "3", "5" >>, << "3", "2" >>},
     X : {<< "1", "0" >>}, Y : {<< "5" >>, << "1", "2" >>}, T : {"M", "m"}]

\* malformed and partial sequences: Y missing, X and Y missing, no
\* terminator, wheel and right-button codes, an empty button code, and
\* an X10 report
Malformed == {
    Str(<< "ESC", "[", "<", "0", ";", "1", "0", "M" >>),
    Str(<< "ESC", "[", "<", "0" >>),
    Str(<< "ESC", "[", "<", "3", "5", ";", "1", "0" >>),
    Str(<< "ESC", "[", "<", "0", ";", "1", "0", ";", "5" >>),
    Str(<< "ESC", "[", "<", "6", "4", ";", "1", "0", ";", "5", "M" >>),
    Str(<< "ESC", "[", "<", "2", ";", "1", "0", ";", "5", "M" >>),
    Str(<< "ESC", "[", "<", ";", "M" >>),
    Str(<< "ESC", "[", "M", " ", "+", "&" >>) }

\* what one read of standard input may return: 'a', 'Q', ' ', '1', ESC, DEL;
\* where the decoding of input is looked at, every printable byte, ESC, DEL,
\* the complete mouse reports and the malformed sequences
TermReads ==
    IF mode = "input"
    THEN {<< b >> : b \in 32..127} \cup {<< 27 >>} \cup Malformed
         \cup {SGR(r.B, r.X, r.Y, r.T) : r \in MouseReports}
    ELSE {<<97>>, <<81>>, <<32>>, <<49>>, <<27>>, <<127>>}

\* what an array on the stack may hold behind the bytes stored in it (buf of
\* Window_ProcessEvents, line 832, and cpy of ProcessMouse, line 792, are not
\* initialised): a NUL, or bytes of an earlier frame before one
Tails ==
    IF mode = "input"
    THEN {Str(<< "NUL" >>), Str(<< "m", "NUL" >>), Str(<< "7", "NUL" >>)}
    ELSE {Str(<< "NUL" >>)}

\* what atoi does when handed a null pointer (undefined): the process is
\* killed, or the call returns some number
AtoiNull == {"crash", "zero"}

\* UpdateDimensions, lines 653-664: the geometry for terminal size << cols, rows >>
UpdateDimensions(size) ==
    /\ ws' = [ws_col |-> size[1], ws_row |-> size[2]]
    /\ DisplayInfo' = [Width |-> size[1], Height |-> size[2] * 2]
    /\ Window_Main' = [Window_Main EXCEPT !.Width = size[1], !.Height = size[2] * 2]

\* the control sequence macros, lines 643-647, as sequences of characters;
\* cmd is the sequence of characters of the macro's argument
CSI == << "ESC", "[" >>
ERASE_CMD(cmd)    == CSI \o cmd \o << "J" >>
DEC_PM_SET(cmd)   == CSI \o << "?" >> \o cmd \o << "h" >>
DEC_PM_RESET(cmd) == CSI \o << "?" >> \o cmd \o << "1" >>

\* HookTerminal, lines 666-682: save the attributes, clear ECHO and ICANON,
\* write the seven control sequences
HookTerminal(t) ==
    [t EXCEPT !.tio = t.attrs, !.attrs = "raw",
              !.out = @ \o DEC_PM_SET(<< "1", "0", "4", "9" >>)
                        \o CSI \o << "0", "m" >>
                        \o ERASE_CMD(<< "2" >>)
                        \o DEC_PM_SET(<< "1", "0", "0", "3" >>)
                        \o DEC_PM_SET(<< "1", "0", "1", "5" >>)
                        \o DEC_PM_SET(<< "1", "0", "0", "6" >>)
                        \o DEC_PM_RESET(<< "2", "5" >>)]

\* UnhookTerminal, lines 684-695: restore the saved attributes, write the
\* seven control sequences
UnhookTerminal(t) ==
    [t EXCEPT !.attrs = t.tio,
              !.out = @ \o DEC_PM_RESET(<< "1", "0", "4", "9" >>)
                        \o CSI \o << "0", "m" >>
                        \o ERASE_CMD(<< "2" >>)
                        \o DEC_PM_RESET(<< "1", "0", "0", "3" >>)
                        \o DEC_PM_RESET(<< "1", "0", "1", "5" >>)
                        \o DEC_PM_RESET(<< "1", "0", "0", "6" >>)
                        \o DEC_PM_SET(<< "2", "5" >>)]

\* The terminal at the other end (the xterm control sequences the comments
\* of lines 673-681 refer to).  ESC starts a sequence and abandons one in
\* progress; ESC [ starts a control sequence: parameter characters ("?",
\* digits, ";") up to a final character.  CSI ? n h sets DEC private mode n
\* and CSI ? n l resets it.  The cursor is shown (mode 25) when the program
\* starts.
DigitChars == << "0", "1", "2", "3", "4", "5", "6", "7", "8", "9" >>
IsDigit(c) == \E d \in 1..10 : DigitChars[d] = c
DigitOf(c) == (CHOOSE d \in 1..10 : DigitChars[d] = c) - 1
ParamChars == {"?", ";"} \cup {DigitChars[d] : d \in 1..10}

\* the decimal number written by the digits ds
VT_Number(ds) ==
    LET val[k \in 0..Len(ds)] ==
            IF k = 0 THEN 0 ELSE val[k - 1] * 10 + DigitOf(ds[k])
    IN  val[Len(ds)]

\* the control sequences in out that reach their final character, as
\* << position of ESC, position of the final character >>
VT_Sequences(out) ==
    { s \in (1..Len(out)) \X (1..Len(out)) :
        /\ s[2] > s[1] + 1
        /\ out[s[1]] = "ESC"
        /\ out[s[1] + 1] = "["
        /\ \A k \in (s[1] + 2)..(s[2] - 1) : out[k] \in ParamChars
        /\ out[s[2]] \notin ParamChars \cup {"ESC"} }

\* s sets or resets a DEC private mode: CSI ? digits h or CSI ? digits l
VT_Private(out, s) ==
    /\ s[2] > s[1] + 2
    /\ out[s[1] + 2] = "?"
    /\ \A k \in (s[1] + 3)..(s[2] - 1) : IsDigit(out[k])
    /\ out[s[2]] \in {"h", "l"}
VT_Mode(out, s) == VT_Number(SubSeq(out, s[1] + 3, s[2] - 1))

\* the DEC private modes this file writes
VT_Modes == {25, 1003, 1006, 1015, 1049}
VT_Default == {25}

\* the terminal after it has received the characters of out: a mode is set
\* when the last sequence about it set it
Terminal(out) ==
    [modes |->
        { n \in VT_Modes :
            LET about == { s \in VT_Sequences(out) :
                             VT_Private(out, s) /\ VT_Mode(out, s) = n }
            IN  IF about = {} THEN n \in VT_Default
                ELSE \E s \in about : /\ out[s[2]] = "h"
                                      /\ \A r \in about : r[1] <= s[1] }]

\* printf("%i", n) for n >= 0: the decimal digits of n
RECURSIVE Dec(_)
Dec(n) ==
    IF n < 10 THEN << DigitChars[n + 1] >>
    ELSE Dec(n \div 10) \o << DigitChars[(n % 10) + 1] >>

\* the window's pixels (Window_AllocFramebuffer): one column for each
\* terminal column and two rows for each terminal row (lines 656-657)
BmpWidth == BmpCols
BmpHeight == BmpRows * 2
Pixels == (0..(BmpWidth - 1)) \X (0..(BmpHeight - 1))
Bitmaps ==
    { [p \in Pixels |-> [R |-> p[1], G |-> p[2], B |-> 255]],
      [p \in Pixels |-> [R |-> 10 * p[2] + p[1], G |-> 0, B |-> 7]] }
Bitmap_GetPixel(bmp, x, y) == bmp[<< x, y >>]

\* the rectangles inside the window
Rects ==
    { r \in [x : 0..(BmpWidth - 1), y : 0..(BmpHeight - 1),
              width : 1..BmpWidth, height : 1..BmpHeight] :
        r.x + r.width <= BmpWidth /\ r.y + r.height <= BmpHeight }

\* no call of Window_DrawFramebuffer yet
NoFrame == [r |-> [x |-> 0, y |-> 0, width |-> 0, height |-> 0],
            bmp |-> << >>, start |-> 0]

\* a loop that starts at the rectangle's top row
RowStart_Exact(r) == r.y

\* r.y & ~0x01, line 897
RowStart(r) == r.y - (r.y % 2)

\* the body of the loops of Window_DrawFramebuffer for column x and rows
\* y, y + 1 (lines 900-907): what the three printf calls write
DrawCell(bmp, x, y) ==
    LET top == Bitmap_GetPixel(bmp, x, y)
        bot == Bitmap_GetPixel(bmp, x, y + 1)
    IN  CSI \o << "4", "8", ";", "2", ";" >> \o Dec(top.R) \o << ";" >>
            \o Dec(top.G) \o << ";" >> \o Dec(top.B) \o << "m" >>
        \o CSI \o << "3", "8", ";", "2", ";" >> \o Dec(bot.R) \o << ";" >>
            \o Dec(bot.G) \o << ";" >> \o Dec(bot.B) \o << "m" >>
        \o CSI \o Dec(y \div 2) \o << ";" >> \o Dec(x) \o << "H" >>
        \o << "xE2", "x96", "x84" >>

\* the loops of Window_DrawFramebuffer(r, bmp), lines 897-898: y from
\* RowStart(r) in steps of two while y < r.y + r.height, x from r.x
\* while x < r.x + r.width
RECURSIVE DrawLoop(_, _, _, _)
DrawLoop(r, bmp, x, y) ==
    IF y >= r.y + r.height THEN << >>
    ELSE IF x >= r.x + r.width THEN DrawLoop(r, bmp, r.x, y + 2)
    ELSE DrawCell(bmp, x, y) \o DrawLoop(r, bmp, x + 1, y)

\* Window_DrawFramebuffer(r, bmp), lines 896-909, called by the application
\* between two calls of Window_ProcessEvents
Window_DrawFramebuffer ==
    /\ host = "terminal"
    /\ pc["main"] = "loop"
    /\ sigs.frames > 0
    /\ sigs' = [sigs EXCEPT !.frames = @ - 1]
    /\ \E r \in Rects, bmp \in Bitmaps :
          tty' = [tty EXCEPT !.out = @ \o DrawLoop(r, bmp, r.x, RowStart(r)),
                             !.frame = [r |-> r, bmp |-> bmp,
                                        start |-> Len(tty.out) + 1]]
    /\ UNCHANGED << haikuvars, pe, host, mode, pc, raised, DisplayInfo,
                    pendingResize, pendingClose, Window_Main, ws >>

\* Window_Init of the terminal host, lines 701-713
Term_Window_Init ==
    /\ host = "terminal"
    /\ pc["main"] = "start"
    /\ tty' = HookTerminal(tty)
    /\ UpdateDimensions(tty.size)
    /\ Goto("main", "inited")
    /\ UNCHANGED << haikuvars, pe, host, mode, raised, pendingResize, pendingClose, sigs >>

\* Window_Create2D / Window_Create3D of the terminal host, lines 719-725
Term_DoCreateWindow ==
    /\ host = "terminal"
    /\ pc["main"] = "inited"
    /\ Window_Main' = [Window_Main EXCEPT !.Exists = TRUE, !.Focused = TRUE]
    /\ Goto("main", "loop")
    /\ UNCHANGED << haikuvars, pe, host, mode, raised, DisplayInfo, pendingResize,
                    pendingClose, ws, tty, sigs >>

\* the signal handlers are installed (lines 710-712)
Hooked == host = "terminal" /\ pc["main"] # "start"

\* the terminal is resized: the kernel stores the new size and marks SIGWINCH
\* pending for the process
Term_Resized ==
    /\ Hooked
    /\ sigs.winch > 0
    /\ \E size \in TermSizes \ {tty.size} : tty' = [tty EXCEPT !.size = size]
    /\ sigs' = [sigs EXCEPT !.winch = @ - 1, !.pending = TRUE]
    /\ UNCHANGED << haikuvars, pe, host, mode, pc, raised, DisplayInfo, pendingResize,
                    pendingClose, Window_Main, ws >>

\* a resize handler that re-queries the geometry itself
sigwinch_handler_Resize ==
    /\ Hooked
    /\ sigs.pending
    /\ sigs' = [sigs EXCEPT !.pending = FALSE]
    /\ UpdateDimensions(tty.size)
    /\ UNCHANGED << haikuvars, pe, host, mode, pc, raised, pendingResize,
                    pendingClose, tty >>

\* sigwinch_handler, line 698
sigwinch_handler ==
    /\ Hooked
    /\ sigs.pending
    /\ sigs' = [sigs EXCEPT !.pending = FALSE]
    /\ pendingResize' = TRUE
    /\ UNCHANGED << haikuvars, pe, host, mode, pc, raised, DisplayInfo, pendingClose,
                    Window_Main, ws, tty >>

\* sigterm_handler, line 699, on SIGTERM or SIGINT
sigterm_handler ==
    /\ Hooked
    /\ sigs.term > 0
    /\ sigs' = [sigs EXCEPT !.term = @ - 1]
    /\ pendingClose' = TRUE
    /\ tty' = UnhookTerminal(tty)
    /\ UNCHANGED << haikuvars, pe, host, mode, pc, raised, DisplayInfo, pendingResize,
                    Window_Main, ws >>

\* Window_ProcessEvents of the terminal host is called; line 835: if
\* (pendingResize).  The history of the call is kept until the next call.
Term_Window_ProcessEvents ==
    /\ host = "terminal"
    /\ pc["main"] = "loop"
    /\ pe' = [NoCall EXCEPT !.closing = pendingClose]
    /\ Goto("main", IF pendingResize THEN "t836" ELSE "t841")
    /\ UNCHANGED << haikuvars, termvars, DisplayInfo, host, mode, raised >>

\* a pump that clears the flag and goes on without querying the terminal
Term_ClearResize_Only ==
    /\ pc["main"] = "t836"
    /\ pendingResize' = FALSE
    /\ Goto("main", "t841")
    /\ UNCHANGED << haikuvars, pe, host, mode, raised, DisplayInfo, pendingClose,
                    Window_Main, ws, tty, sigs >>

\* line 836: pendingResize = false
Term_ClearResize ==
    /\ pc["main"] = "t836"
    /\ pendingResize' = FALSE
    /\ Goto("main", "t837")
    /\ UNCHANGED << haikuvars, pe, host, mode, raised, DisplayInfo, pendingClose,
                    Window_Main, ws, tty, sigs >>

\* lines 837-838: UpdateDimensions(); Event_RaiseVoid(&WindowEvents.Resized)
Term_Resize ==
    /\ pc["main"] = "t837"
    /\ UpdateDimensions(tty.size)
    /\ raised' = Append(raised, << "WindowEvents.Resized", 0, 0 >>)
    /\ pe' = [pe EXCEPT !.raised = Append(@, << "WindowEvents.Resized", 0, 0 >>)]
    /\ Goto("main", "t841")
    /\ UNCHANGED << haikuvars, host, mode, pendingResize, pendingClose, tty, sigs >>

\* line 841: if (pendingClose)
Term_TestClose ==
    /\ pc["main"] = "t841"
    /\ Goto("main", IF pendingClose THEN "t842" ELSE "t848")
    /\ UNCHANGED << haikuvars, pe, termvars, DisplayInfo, host, mode, raised >>

\* line 842: pendingClose = false
Term_ClearClose ==
    /\ pc["main"] = "t842"
    /\ pendingClose' = FALSE
    /\ Goto("main", "t843")
    /\ UNCHANGED << haikuvars, pe, host, mode, raised, DisplayInfo, pendingResize,
                    Window_Main, ws, tty, sigs >>

\* a close that does not end the call of the pump
Term_Close_Through ==
    /\ pc["main"] = "t843"
    /\ Window_Main' = [Window_Main EXCEPT !.Exists = FALSE]
    /\ raised' = Append(raised, << "WindowEvents.Closing", 0, 0 >>)
    /\ pe' = [pe EXCEPT !.raised = Append(@, << "WindowEvents.Closing", 0, 0 >>)]
    /\ Goto("main", "t848")
    /\ UNCHANGED << haikuvars, host, mode, DisplayInfo, pendingResize,
                    pendingClose, ws, tty, sigs >>

\* lines 843-845: Window_Main.Exists = false; raise Closing; return
Term_Close ==
    /\ pc["main"] = "t843"
    /\ Window_Main' = [Window_Main EXCEPT !.Exists = FALSE]
    /\ raised' = Append(raised, << "WindowEvents.Closing", 0, 0 >>)
    /\ pe' = [pe EXCEPT !.raised = Append(@, << "WindowEvents.Closing", 0, 0 >>)]
    /\ Goto("main", "loop")
    /\ UNCHANGED << haikuvars, host, mode, DisplayInfo, pendingResize,
                    pendingClose, ws, tty, sigs >>

\* ProcessKey(key), lines 819-829: the notifications it raises
ProcessKey(key) ==
    LET k == IF key >= 97 /\ key <= 122 THEN key - 32 ELSE key IN
    IF k >= 65 /\ k <= 90 THEN << << "Input_SetPressed", k, 0 >> >>
    ELSE IF k = 32 THEN << << "Input_SetPressed", KEY("CCKEY_SPACE"), 0 >>,
                           << "Input_SetReleased", KEY("CCKEY_SPACE"), 0 >> >>
    ELSE << >>

\* line 848: nothing to read, return
Term_NoInput ==
    /\ pc["main"] = "t848"
    /\ Goto("main", "loop")
    /\ UNCHANGED << haikuvars, pe, termvars, DisplayInfo, host, mode, raised >>

\* the least element of a set of numbers
First(S) == CHOOSE i \in S : \A j \in S : i <= j

\* strncpy(cpy, buf, n), line 793: the n bytes stored in cpy; bytes behind a
\* NUL of buf are stored as NUL, and no NUL is appended
strncpy(buf, n) ==
    [i \in 1..n |-> IF \E k \in 1..i : buf[k] = 0 THEN 0 ELSE buf[i]]

\* strtok(mem + p - 1, ";") (or strtok(NULL, ";") with p the saved position):
\* skip separators, return the token up to the next separator or NUL and
\* the position to go on from, or a null pointer at the end of the string
strtok(mem, p) ==
    LET q == First({i \in p..Len(mem) : mem[i] # Ord(";")})
        e == First({i \in (q + 1)..Len(mem) : mem[i] \in {Ord(";"), 0}})
    IN  IF mem[q] = 0
        THEN [null |-> TRUE, s |-> << >>, next |-> q]
        ELSE [null |-> FALSE, s |-> SubSeq(mem, q, e - 1),
              next |-> IF mem[e] = 0 THEN e ELSE e + 1]

\* strchr(mem, c) != NULL: c occurs in mem before the first NUL
strchr(mem, c) ==
    \E i \in 1..Len(mem) : mem[i] = c /\ \A k \in 1..i : mem[k] # 0

\* atoi(tok): the number written by the leading digits of tok, after a
\* sign; an is what happens for a null pointer
atoi(tok, an) ==
    LET s == tok.s
        neg == Len(s) > 0 /\ s[1] = Ord("-")
        from == IF Len(s) > 0 /\ s[1] \in {Ord("-"), Ord("+")} THEN 2 ELSE 1
        IsNum(b) == b >= Ord("0") /\ b <= Ord("9")
        len == First({k \in 0..Len(s) :
                        from + k > Len(s) \/ ~IsNum(s[from + k])})
        val[k \in 0..len] ==
            IF k = 0 THEN 0 ELSE val[k - 1] * 10 + (s[from + k - 1] - Ord("0"))
    IN  IF tok.null THEN [crash |-> an = "crash", v |-> 0]
        ELSE [crash |-> FALSE, v |-> IF neg THEN 0 - val[len] ELSE val[len]]

\* ExtractXY(), lines 786-790, with strtok's saved position p
ExtractXY(cpy, p, an) ==
    LET tx == strtok(cpy, p)
        x  == atoi(tx, an)
        ty == strtok(cpy, tx.next)
        y  == atoi(ty, an)
    IN  [crash |-> x.crash \/ y.crash, x |-> x.v, y |-> y.v * 2]

\* what a call made in Window_ProcessEvents comes to: the notifications it
\* raised, and whether the process was killed in it
Returns(notes) == [crash |-> FALSE, notes |-> notes]
Killed == [crash |-> TRUE, notes |-> << >>]

\* ProcessMouse(buf, n), lines 791-817; buf is the whole array, ctail what
\* cpy holds behind the n bytes copied
ProcessMouse(buf, n, ctail, an) ==
    LET cpy   == strncpy(buf, n) \o ctail
        tok   == strtok(cpy, 4)
        mouse == IF strchr(buf, Ord("m")) THEN 0 ELSE 1
        xy    == ExtractXY(cpy, tok.next, an)
    IN  IF tok.null THEN Returns(<< >>)
        ELSE IF tok.s[1] = Ord("0")
        THEN IF xy.crash THEN Killed
             ELSE Returns(<< << "Pointer_SetPosition", xy.x, xy.y >>,
                             << "Input_SetNonRepeatable", KEY("CCMOUSE_L"), mouse >> >>)
        ELSE IF tok.s[1] = Ord("3")
        THEN IF xy.crash THEN Killed
             ELSE Returns(<< << "Pointer_SetPosition", xy.x, xy.y >> >>)
        ELSE Returns(<< >>)

\* lines 848-857 for a read that stores bytes in buf, in front of tail
Term_Input ==
    /\ pc["main"] = "t848"
    /\ sigs.reads > 0
    /\ sigs' = [sigs EXCEPT !.reads = @ - 1]
    /\ \E bytes \in TermReads, tail \in Tails, ctail \in Tails, an \in AtoiNull :
          LET buf == bytes \o tail
              n   == Len(bytes)
              res == IF /\ n >= 4
                        /\ buf[1] = Ord("ESC")
                        /\ buf[2] = Ord("[")
                        /\ buf[3] = Ord("<")
                     THEN ProcessMouse(buf, n, ctail, an)
                     ELSE IF buf[1] >= 32 /\ buf[1] < 127
                     THEN Returns(ProcessKey(buf[1]))
                     ELSE Returns(<< >>)
          IN  /\ raised' = raised \o res.notes
              /\ pe' = [pe EXCEPT !.raised = @ \o res.notes,
                                  !.input = [bytes |-> bytes, tail |-> tail,
                                             ctail |-> ctail]]
              /\ Goto("main", IF res.crash THEN "crashed" ELSE "loop")
    /\ UNCHANGED << haikuvars, host, mode, DisplayInfo, pendingResize,
                    pendingClose, Window_Main, ws, tty >>

Term_Next ==
    \/ Term_Window_Init
    \/ Term_DoCreateWindow
    \/ Term_Resized
    \/ sigwinch_handler
    \/ sigterm_handler
    \/ Term_Window_ProcessEvents
    \/ Term_ClearResize
    \/ Term_Resize
    \/ Term_TestClose
    \/ Term_ClearClose
    \/ Term_Close
    \/ Term_NoInput
    \/ Term_Input

----------------------------------------------------------------------------
(* The toolkit host as a whole *)

\* the program before main() calls Window_Init: statics are zero
Statics(closes, appMsgs, winMsgs) ==
    /\ pc = [t \in Threads |-> IF t = "main" THEN "start" ELSE "unborn"]
    /\ events_mutex = [created |-> FALSE, owner |-> NoThread]
    /\ events_count = 0
    /\ events_capacity = 0
    /\ events_list = [ptr |-> "NULL", mem |-> << >>]
    /\ app_handle = "NULL"
    /\ launching = FALSE
    /\ win_handle = "NULL"
    /\ app_inbox = 0
    /\ msg = [t \in Threads |-> NoMessage]
    /\ event = [t \in Threads |-> ZeroEvent]
    /\ ret = [t \in Threads |-> "none"]
    /\ last_buttons = 0
    /\ open_panel = "NULL"
    /\ open_callback = "NULL"
    /\ WindowInfo = [Exists |-> FALSE, Width |-> 0, Height |-> 0, Focused |-> 0]
    /\ found = FALSE
    /\ budget = [t \in Threads |->
                   CASE t = "main" -> closes [] t = "app" -> appMsgs
                     [] OTHER -> winMsgs]
    /\ fault = "none"
    /\ pushed = [t \in Producers |-> << >>]
    /\ pulled = << >>
    /\ raised = << >>
    /\ pe = NoCall
    /\ calls = << >>
    /\ DisplayInfo = [Width |-> 0, Height |-> 0]
    /\ pendingResize = FALSE
    /\ pendingClose = FALSE
    /\ Window_Main = [Exists |-> FALSE, Width |-> 0, Height |-> 0, Focused |-> FALSE]
    /\ ws = [ws_col |-> 0, ws_row |-> 0]

\* the toolkit host before Window_Init
Boot(m, closes, appMsgs, winMsgs) ==
    /\ host = "haiku"
    /\ mode = m
    /\ Statics(closes, appMsgs, winMsgs)
    /\ tty = [attrs |-> "cooked", tio |-> "unset", size |-> <<0, 0>>, out |-> << >>,
           frame |-> NoFrame]
    /\ sigs = [winch |-> 0, term |-> 0, reads |-> 0, frames |-> 0, pending |-> FALSE]

\* the terminal host before Window_Init: a cooked terminal of some size
Term_Boot(winch, term, reads) ==
    /\ host = "terminal"
    /\ mode = "core"
    /\ Statics(0, 0, 0)
    /\ \E size \in TermSizes :
          tty = [attrs |-> "cooked", tio |-> "unset", size |-> size, out |-> << >>,
                 frame |-> NoFrame]
    /\ sigs = [winch |-> winch, term |-> term, reads |-> reads, frames |-> 0,
               pending |-> FALSE]


\* the terminal host once Window_Init and Window_Create2D have run on an
\* 80 by 24 terminal, with no signal to come
Term_Started(m, reads, frames) ==
    /\ host = "terminal"
    /\ mode = m
    /\ pc = [t \in Threads |-> IF t = "main" THEN "loop" ELSE "unborn"]
    /\ events_mutex = [created |-> FALSE, owner |-> NoThread]
    /\ events_count = 0
    /\ events_capacity = 0
    /\ events_list = [ptr |-> "NULL", mem |-> << >>]
    /\ app_handle = "NULL"
    /\ launching = FALSE
    /\ win_handle = "NULL"
    /\ app_inbox = 0
    /\ msg = [t \in Threads |-> NoMessage]
    /\ event = [t \in Threads |-> ZeroEvent]
    /\ ret = [t \in Threads |-> "none"]
    /\ last_buttons = 0
    /\ open_panel = "NULL"
    /\ open_callback = "NULL"
    /\ WindowInfo = [Exists |-> FALSE, Width |-> 0, Height |-> 0, Focused |-> 0]
    /\ found = FALSE
    /\ budget = [t \in Threads |-> 0]
    /\ fault = "none"
    /\ pushed = [t \in Producers |-> << >>]
    /\ pulled = << >>
    /\ raised = << >>
    /\ pe = NoCall
    /\ calls = << >>
    /\ DisplayInfo = [Width |-> 80, Height |-> 48]
    /\ pendingResize = FALSE
    /\ pendingClose = FALSE
    /\ Window_Main = [Exists |-> TRUE, Width |-> 80, Height |-> 48, Focused |-> TRUE]
    /\ ws = [ws_col |-> 80, ws_row |-> 24]
    /\ tty = HookTerminal([attrs |-> "cooked", tio |-> "unset", size |-> <<80, 24>>,
                           out |-> << >>, frame |-> NoFrame])
    /\ sigs = [winch |-> 0, term |-> 0, reads |-> reads, frames |-> frames,
               pending |-> FALSE]

\* the ways n calls and messages are spread over Window_Close, the
\* application looper and the window looper
Splits(n) ==
    { s \in (0..n) \X (0..n) \X (0..n) : s[1] + s[2] + s[3] = n }

Init ==
    \/ \E s \in Splits(MaxMsgs) : Boot("core", s[1], s[2], s[3])
    \/ Term_Boot(MaxWinch, MaxSigterm, MaxReads)

WindowSizes == {<<320, 200>>}

\* the toolkit host once Window_Init, Window_Create2D and Window_Show have
\* run and both loopers wait for their first message
Started(m, closes, appMsgs, winMsgs) ==
    /\ host = "haiku"
    /\ mode = m
    /\ pc = [t \in Threads |-> IF t = "main" THEN "loop" ELSE "idle"]
    /\ events_mutex = [created |-> TRUE, owner |-> NoThread]
    /\ events_count = 0
    /\ events_capacity = EVENTS_DEFAULT_MAX
    /\ events_list = [ptr |-> "events_default",
                      mem |-> [i \in 1..EVENTS_DEFAULT_MAX |-> ZeroEvent]]
    /\ app_handle = "CC_BApp"
    /\ launching = FALSE
    /\ win_handle = "CC_BWindow"
    /\ app_inbox = 0
    /\ msg = [t \in Threads |-> NoMessage]
    /\ event = [t \in Threads |-> ZeroEvent]
    /\ ret = [t \in Threads |-> "none"]
    /\ last_buttons = 0
    /\ open_panel = "NULL"
    /\ open_callback = "NULL"
    /\ WindowInfo = [Exists |-> TRUE, Width |-> 320, Height |-> 200, Focused |-> 0]
    /\ found = FALSE
    /\ budget = [t \in Threads |->
                   CASE t = "main" -> closes [] t = "app" -> appMsgs
                     [] OTHER -> winMsgs]
    /\ fault = "none"
    /\ pushed = [t \in Producers |-> << >>]
    /\ pulled = << >>
    /\ raised = << >>
    /\ pe = NoCall
    /\ calls = << >>
    /\ DisplayInfo = [Width |-> 1024, Height |-> 768]
    /\ pendingResize = FALSE
    /\ pendingClose = FALSE
    /\ Window_Main = [Exists |-> FALSE, Width |-> 0, Height |-> 0, Focused |-> FALSE]
    /\ ws = [ws_col |-> 0, ws_row |-> 0]
    /\ tty = [attrs |-> "cooked", tio |-> "unset", size |-> <<0, 0>>, out |-> << >>,
           frame |-> NoFrame]
    /\ sigs = [winch |-> 0, term |-> 0, reads |-> 0, frames |-> 0, pending |-> FALSE]

\* the steps of Window_Init, Window_Create2D/3D and Window_Show
Startup ==
    \/ Events_Init
    \/ RunApp_Start
    \/ RunApp_Poll
    \/ AppThread_New
    \/ AppThread_Run
    \/ \E s \in WindowSizes : DoCreateWindow(s[1], s[2])
    \/ Window_Show

\* the steps of the event pump
Pump ==
    \/ Window_ProcessEvents
    \/ Events_Pull_Lock
    \/ Events_Pull_Body
    \/ Events_Pull_Unlock
    \/ Window_ProcessEvents_Dispatch

\* the steps of Events_Push
Push ==
    \/ \E t \in Producers : Events_Push_Lock(t)
    \/ \E t \in Producers : Events_Push_Body(t)
    \/ \E t \in Producers : Events_Push_Unlock(t)

\* the running toolkit host: both loopers and the application thread
Running ==
    \/ Window_Close
    \/ Pump
    \/ CC_BApp_Native
    \/ CC_BApp_Posted
    \/ CC_BWindow_Native
    \/ CC_BWindow_Line223
    \/ UpdateMouseButtons_Resume
    \/ Push
    \/ \E t \in Producers : Base_DispatchMessage(t)

Next ==
    \/ Startup
    \/ Window_Close
    \/ Pump
    \/ CC_BApp_Native
    \/ CC_BApp_Posted
    \/ CC_BWindow_Native
    \/ CC_BWindow_Line223
    \/ Push
    \/ \E t \in Producers : Base_DispatchMessage(t)
    \/ Term_Next

\* both hosts, from program start, with one message of each shape
Spec == Init /\ [][Next]_vars


\* the toolkit host at work, every kind of native message, one at a time
InitTranslate == \E s \in Splits(MaxFull) : Started("full", s[1], s[2], s[3])
SpecTranslate == InitTranslate /\ [][Running]_vars

\* a burst of pointer messages that overflows the initial capacity twice
InitGrow == Started("sweep", 0, 0, MaxBurst)
NextGrow ==
    \/ CC_BWindow_Native
    \/ CC_BWindow_Line223
    \/ Push
    \/ Pump
SpecGrow == InitGrow /\ [][NextGrow]_vars

\* the window looper handed a burst of pointer messages: a long one that the
\* pump drains afterwards, or a shorter one while the pump runs
MaxFlood == 22
InitFlood ==
    \/ Started("sweep", 0, 0, MaxBurst)
    \/ Started("flood", 0, 0, MaxFlood)
SpecFlood == InitFlood /\ [][NextGrow]_vars

\* the window looper alone, handed button messages
InitButtons ==
    \/ Started("buttons", 0, 0, MaxButtonMsgs)
    \/ Started("script", 0, 0, Len(ButtonScript))
NextButtons ==
    \/ CC_BWindow_Native
    \/ UpdateMouseButtons_Resume
    \/ Push
SpecButtons == InitButtons /\ [][NextButtons]_vars

\* the window looper and the pump, every thread that holds the mutex or runs
\* the pump being scheduled again
InitLive == Started("core", 0, 0, MaxLiveMsgs)
NextLive ==
    \/ CC_BWindow_Native
    \/ CC_BWindow_Line223
    \/ Base_DispatchMessage("win")
    \/ Push
    \/ Pump
Scheduling ==
    /\ WF_vars(Events_Pull_Lock \/ Events_Pull_Body \/ Events_Pull_Unlock
               \/ Window_ProcessEvents_Dispatch)
    /\ WF_vars(\E t \in Producers : Events_Push_Body(t) \/ Events_Push_Unlock(t))
SpecLive == InitLive /\ [][NextLive]_vars /\ Scheduling

----------------------------------------------------------------------------
(* Properties *)

IsPrefix(s, t) == Len(s) <= Len(t) /\ \A i \in 1..Len(s) : s[i] = t[i]

\* the records of seq that producer p pushed
FromProducer(seq, p) == SelectSeq(seq, LAMBDA e : e.id[1] = p)

\* thread t is between the Mutex_Lock and the Mutex_Unlock of Events_Push or
\* Events_Pull
InCS(t) ==
    IF t = "main" THEN pc[t] \in {"pull_body", "pull_unlock"}
    ELSE pc[t] \in {"push_body", "push_unlock"}

\* the pump is about to return: its last pull found the queue empty
Returning == pc["main"] = "pull_unlock" /\ ~found

\* C1: the records returned by successive successful pulls were all pushed by
\* a producer, those of each producer come out in the order it pushed them,
\* each at most once and none merged with another, and when only one
\* producer has pushed, the records pulled are a prefix of what it pushed
C1_FifoPerProducer ==
    /\ \A i \in 1..Len(pulled) : pulled[i].id[1] \in Producers
    /\ \A p \in Producers : IsPrefix(FromProducer(pulled, p), pushed[p])
    /\ \A p \in Producers :
          (\A q \in Producers \ {p} : pushed[q] = << >>) => IsPrefix(pulled, pushed[p])

\* records of the window looper were pulled before and after one of the
\* application looper
C1_Interleaved ==
    \E i, j, k \in 1..Len(pulled) :
        /\ i < j /\ j < k
        /\ pulled[i].id[1] = "win"
        /\ pulled[j].id[1] = "app"
        /\ pulled[k].id[1] = "win"

\* the record the caller of Events_Pull holds but has not yet dispatched
InHand == IF pc["main"] = "pull_unlock" /\ found THEN << event["main"] >> ELSE << >>

\* the record a call of Events_Push by the window looper has not yet stored
InFlight ==
    IF pc["win"] \in {"push_lock", "push_body"} THEN << event["win"] >> ELSE << >>

\* C2: through a burst of more than EVENTS_DEFAULT_MAX pushes and the drain
\* that follows, every record pushed is pulled, held by the puller, in the
\* queue or about to be stored, unchanged and in push order, whatever the
\* number of reallocations; no write leaves the storage; and when the drain
\* ends, what was pulled is exactly the burst
C2_NoLossUnderGrowth ==
    /\ fault = "none"
    /\ events_count <= events_capacity
    /\ pushed["win"] = pulled \o InHand \o Queue \o InFlight
    /\ Returning => (pulled = pushed["win"] /\ Len(pulled) = MaxBurst)

\* the drain of a burst that made the storage grow twice has ended
C2_DrainedAfterGrowth ==
    /\ Returning
    /\ Len(pulled) > 2 * EVENTS_DEFAULT_MAX
    /\ events_capacity = 3 * EVENTS_DEFAULT_MAX
    /\ events_list.ptr = "heap"

\* C3: no record of type CC_NONE is in the queue, was ever passed to
\* Events_Push by a translator, or is being pushed, whatever the message and
\* whether or not its fields are found
C3_NoNoneQueued ==
    /\ \A i \in 1..events_count : events_list.mem[i].type \in CC_MOUSE_SCROLL..CC_WIN_QUIT
    /\ \A p \in Producers : \A i \in 1..Len(pushed[p]) : pushed[p][i].type # CC_NONE
    /\ \A p \in Producers :
          pc[p] \in {"push_lock", "push_body", "push_unlock"} => event[p].type # CC_NONE

\* a button release is queued by the last message the window looper is handed
C3_ReleaseQueued ==
    /\ \E i \in 1..events_count : events_list.mem[i].type = CC_MOUSE_UP
    /\ budget["win"] = 0

\* C4: a thread is between lock and unlock of Events_Push/Events_Pull exactly
\* when it owns events_mutex, so at most one is; count, capacity and storage
\* change only in a step of the owner (Events_Init aside, which runs before
\* any other thread exists); the mutex is only taken when free, and is free
\* whenever no thread is inside the two operations
C4_MutexDiscipline ==
    /\ [](\A t \in Threads : InCS(t) <=> events_mutex.owner = t)
    /\ [](Cardinality({ t \in Threads : InCS(t) }) <= 1)
    /\ [][ (<< events_count, events_capacity, events_list >>' #
              << events_count, events_capacity, events_list >>)
           => \/ pc["main"] = "start"
              \/ /\ events_mutex.owner # NoThread
                 /\ events_mutex'.owner = events_mutex.owner
                 /\ pc'[events_mutex.owner] # pc[events_mutex.owner] ]_vars
    /\ [][ events_mutex'.owner # events_mutex.owner
           => (events_mutex.owner = NoThread \/ events_mutex'.owner = NoThread) ]_vars

\* the pump holds the mutex while both loopers wait for it in Events_Push
C4_Contended ==
    /\ events_mutex.owner = "main"
    /\ pc["win"] = "push_lock"
    /\ pc["app"] = "push_lock"

\* C5: a pull that finds the queue empty changes neither count, capacity,
\* storage nor the caller's record, and returns false at once; a pull that
\* finds it non-empty returns true with the head in the caller's record, and
\* the queue is what it was without its head
C5_PullFrameEffect ==
    /\ [](pc["main"] = "pull_body" => ENABLED Events_Pull_Body)
    /\ [](pc["main"] = "pull_unlock" => ENABLED Events_Pull_Unlock)
    /\ [][ (pc["main"] = "pull_body" /\ pc'["main"] # "pull_body")
           => /\ pc'["main"] = "pull_unlock"
              /\ events_capacity' = events_capacity
              /\ events_list'.ptr = events_list.ptr
              /\ IF events_count = 0
                 THEN /\ ~found'
                      /\ events_count' = 0
                      /\ events_list' = events_list
                      /\ event' = event
                 ELSE /\ found'
                      /\ event'["main"] = events_list.mem[1]
                      /\ events_count' = events_count - 1
                      /\ Queue' = Tail(Queue) ]_vars
    /\ [][ (pc["main"] = "pull_unlock" /\ pc'["main"] # "pull_unlock")
           => /\ found' = found
              /\ UNCHANGED << events_count, events_capacity, events_list >> ]_vars

\* a pull has taken the head of a queue of several records
C5_PulledOneOfMany == pc["main"] = "pull_unlock" /\ found /\ events_count >= 2

\* the calls the pump's switch makes for a sequence of records
RECURSIVE CallsFor(_)
CallsFor(recs) ==
    IF recs = << >> THEN << >>
    ELSE Notifications(Head(recs)) \o CallsFor(Tail(recs))

\* C6: when a call of Window_ProcessEvents is about to return the queue is
\* empty, every record that was queued when the call started has been pulled,
\* in queue order, and each record pulled has been dispatched, in that order;
\* the call returns from nowhere else than a pull that found the queue
\* empty; and a call that has started does return
C6_DrainsCompletely ==
    /\ [](Returning => /\ events_count = 0
                       /\ IsPrefix(pe.start, pe.pulled)
                       /\ pe.raised = CallsFor(pe.pulled))
    /\ [][ (pc["main"] # "loop" /\ pc'["main"] = "loop") => Returning ]_vars
    /\ (pc["main"] # "loop") ~> (pc["main"] = "loop")

\* a drain that started with several records queued pulled still more,
\* pushed while it ran, and is about to return
C6_DrainedMoreThanQueued ==
    /\ Returning
    /\ Len(pe.start) >= 2
    /\ Len(pe.pulled) > Len(pe.start)

\* the record is a KeyDown or KeyUp whose code is negative, past the end of
\* key_map, or mapped to 0
UnmappedKey(ev) ==
    /\ ev.type \in {CC_KEY_DOWN, CC_KEY_UP}
    /\ \/ ev.v1 < 0
       \/ ev.v1 >= key_map_Elems
       \/ key_map[ev.v1 + 1] = 0

\* the calls of a sequence that are not log lines
Raised(cs) == SelectSeq(cs, LAMBDA c : c[1] # "Platform_Log2")

\* C7: the pump's switch, given a KeyDown/KeyUp record with an unmapped code,
\* only logs the code: it raises nothing, leaves the window state alone,
\* faults nowhere and goes back to pulling; no key notification ever carries
\* key 0; and when the call returns the queue is empty, every record queued at
\* its start was pulled, and every pulled record other than the unmapped keys
\* raised its notification
C7_UnmappedKeysDropped ==
    /\ [](fault = "none")
    /\ [](\A i \in 1..Len(raised) :
            raised[i][1] \in {"Input_SetPressed", "Input_SetReleased"}
                => raised[i][2] # 0)
    /\ [][ (pc["main"] = "pe_switch" /\ pc'["main"] # "pe_switch"
            /\ UnmappedKey(event["main"]))
           => /\ pc'["main"] = "pull_lock"
              /\ Raised(raised') = Raised(raised)
              /\ WindowInfo' = WindowInfo ]_vars
    /\ [](Returning =>
            /\ events_count = 0
            /\ IsPrefix(pe.start, pe.pulled)
            /\ Len(Raised(pe.raised))
                 = Len(SelectSeq(pe.pulled, LAMBDA r : ~UnmappedKey(r))))

\* a drain pulled a KeyDown with a negative code, raised nothing for it, and
\* went on to raise the text input queued behind it
C7_DroppedThenDispatched ==
    /\ Returning
    /\ Len(pe.pulled) = 2
    /\ pe.pulled[1].type = CC_KEY_DOWN /\ pe.pulled[1].v1 < 0
    /\ Raised(pe.raised) = << << "InputEvents.Press", 65, 0 >> >>

\* bit b (1, 2, 4) of a button mask
Bit(x, b) == (x \div b) % 2

\* the edges between two button masks as << type, button >>, primary first
ExpectedEdges(buttons, last) ==
    LET Edge(b, key) ==
            IF Bit(buttons, b) = Bit(last, b) THEN << >>
            ELSE IF Bit(buttons, b) = 1 THEN << << CC_MOUSE_DOWN, key >> >>
            ELSE << << CC_MOUSE_UP, key >> >>
    IN  Edge(B_PRIMARY_MOUSE_BUTTON, KEY("KEY_LMOUSE"))
        \o Edge(B_SECONDARY_MOUSE_BUTTON, KEY("KEY_RMOUSE"))
        \o Edge(B_TERTIARY_MOUSE_BUTTON, KEY("KEY_MMOUSE"))

\* type and button of the records of a sequence
Edges(recs) == [i \in 1..Len(recs) |-> << recs[i].type, recs[i].v1 >>]

\* the records pushed by the i-th call of UpdateMouseButtons so far
PushedBy(i) ==
    SubSeq(pushed["win"], calls[i].base + 1,
           IF i < Len(calls) THEN calls[i + 1].base ELSE Len(pushed["win"]))

\* C8: each call of UpdateMouseButtons compares the mask with the mask of the
\* call before it (0 for the first) and pushes exactly the edges between the
\* two, primary/Left first, then secondary/Right, then tertiary/Middle, Down
\* for a bit now set and Up for one now clear; the masks 0, P, P|S, S, 0 give
\* Down(Left), Down(Right), Up(Left), Up(Right) and nothing else
C8_ButtonEdges ==
    /\ \A i \in 1..Len(calls) :
          /\ calls[i].last = IF i = 1 THEN 0 ELSE calls[i - 1].buttons
          /\ IF i < Len(calls) \/ pc["win"] = "idle"
             THEN Edges(PushedBy(i)) = ExpectedEdges(calls[i].buttons, calls[i].last)
             ELSE IsPrefix(Edges(PushedBy(i)),
                           ExpectedEdges(calls[i].buttons, calls[i].last))
    /\ (calls # << >> /\ pc["win"] = "idle") => last_buttons = calls[Len(calls)].buttons
    /\ (mode = "script" /\ Len(calls) = Len(ButtonScript) /\ pc["win"] = "idle")
          => Edges(pushed["win"]) =
               << << CC_MOUSE_DOWN, KEY("KEY_LMOUSE") >>,
                  << CC_MOUSE_DOWN, KEY("KEY_RMOUSE") >>,
                  << CC_MOUSE_UP, KEY("KEY_LMOUSE") >>,
                  << CC_MOUSE_UP, KEY("KEY_RMOUSE") >> >>

\* the five masks of ButtonScript have been handled and four records pushed
C8_ScriptDone ==
    /\ mode = "script"
    /\ [i \in 1..Len(calls) |-> calls[i].buttons] = ButtonScript
    /\ pc["win"] = "idle"
    /\ Len(pushed["win"]) = 4

\* C9: once a looper thread exists the queue has its mutex, its initial
\* capacity and its storage, and no push ever runs against anything else;
\* Window_Init is past RunApp only when the application object exists and
\* has left its launch phase, and leaves the polling loop in no other state
C9_StartupOrdering ==
    /\ []((\E t \in Producers : pc[t] # "unborn")
            => /\ events_mutex.created
               /\ events_capacity >= EVENTS_DEFAULT_MAX
               /\ events_list.ptr # "NULL"
               /\ Len(events_list.mem) = events_capacity)
    /\ [](fault = "none" /\ \A t \in Threads : pc[t] # "crashed")
    /\ []((host = "haiku" /\ pc["main"] \notin {"start", "runapp", "runapp_wait"})
            => (app_handle # "NULL" /\ ~launching))
    /\ [][ (pc["main"] = "runapp_wait" /\ ~(app_handle # "NULL" /\ ~launching))
           => pc'["main"] = "runapp_wait" ]_vars

\* Window_Init has returned and the application looper has already pushed
C9_PushedBeforeWindow == pc["main"] = "inited" /\ host = "haiku" /\ pushed["app"] # << >>

\* a step that makes or forwards a close request: Window_Close posts its
\* message, a looper hands a quit record to Events_Push or moves on inside
\* that call, the signal handler sets pendingClose
CloseRequest ==
    \/ app_inbox' > app_inbox
    \/ \E p \in Producers :
          /\ Len(pushed'[p]) > Len(pushed[p])
          /\ pushed'[p][Len(pushed'[p])].type = CC_WIN_QUIT
    \/ \E p \in Producers :
          /\ pc[p] \in {"push_lock", "push_body", "push_unlock"}
          /\ event[p].type = CC_WIN_QUIT
          /\ pc'[p] # pc[p]
    \/ pendingClose' /\ ~pendingClose

\* C10: no step that makes or forwards a close request changes the existence
\* flag of either host; the flag is cleared only by the pump (the switch on
\* the toolkit host, line 843 on the terminal host); and a call of
\* Window_ProcessEvents that starts with a Quit record queued, or with
\* pendingClose set, ends with the flag false and Closing raised
C10_CooperativeClose ==
    /\ [][ CloseRequest => /\ WindowInfo'.Exists = WindowInfo.Exists
                           /\ Window_Main'.Exists = Window_Main.Exists ]_vars
    /\ [][ (WindowInfo.Exists /\ ~WindowInfo'.Exists)
           => (pc["main"] = "pe_switch" /\ event["main"].type = CC_WIN_QUIT) ]_vars
    /\ [][ (Window_Main.Exists /\ ~Window_Main'.Exists) => pc["main"] = "t843" ]_vars
    /\ []((host = "haiku" /\ Returning /\ pe.closing)
            => /\ ~WindowInfo.Exists
               /\ \E i \in 1..Len(pe.raised) : pe.raised[i][1] = "WindowEvents.Closing")
    /\ []((host = "terminal" /\ pc["main"] = "loop" /\ pe.closing)
            => /\ ~Window_Main.Exists
               /\ \E i \in 1..Len(pe.raised) : pe.raised[i][1] = "WindowEvents.Closing")

\* every call and message went into quit requests to the application
\* looper; they have been translated, queued and drained, and the window is
\* gone
C10_ClosedByRequest ==
    /\ host = "haiku"
    /\ Returning
    /\ pe.closing
    /\ ~WindowInfo.Exists
    /\ budget["main"] = 0
    /\ pushed["win"] = << >>
    /\ Len(pushed["app"]) = MaxMsgs

\* the application opens file dialogs while the application looper is
\* handed messages and the pump runs
InitDialog == Started("dialog", MaxDialogs, MaxRefs, 0)
NextDialog ==
    \/ Window_OpenFileDialog
    \/ CC_BApp_Native
    \/ CallOpenFileCallback_Clear
    \/ Base_DispatchMessage("app")
    \/ Push
    \/ Pump
SpecDialog == InitDialog /\ [][NextDialog]_vars

\* a step of a looper thread that exists
LooperStep == \E t \in Producers : pc[t] # "unborn" /\ pc'[t] # pc[t]

\* C11: no step of a looper thread (a native message handler and what it
\* calls, or the entry function of the toolkit thread) changes a variable of
\* this file that the application thread reads or writes, the event queue
\* aside
C11_OnlyQueueShared ==
    [][ LooperStep => UNCHANGED << app_handle, win_handle, open_panel,
                                   open_callback, WindowInfo, DisplayInfo >> ]_vars

\* a step that changes the width, height, focus flag or existence flag of
\* the window (WindowInfo on the toolkit host, Window_Main on the terminal host)
GeometryWritten == WindowInfo' # WindowInfo \/ Window_Main' # Window_Main

\* the application thread is in Window_ProcessEvents, at the switch on a
\* drained record (line 417) or at lines 837 and 843 of the terminal pump
PumpLabels == {"pe_switch", "t837", "t843"}

\* the application thread is in Window_Init of the terminal host (line 708)
\* or about to create the window (lines 265-279, 719-723)
CreationLabels == {"start", "inited"}

SigtermStep == sigs'.term # sigs.term

\* the mouse-tracking modes HookTerminal enables (lines 677-679)
MouseModes == {1003, 1015, 1006}

\* C13: whenever sigterm_handler runs after Window_Init, it leaves the
\* pending-close flag set, the terminal in cooked mode with the attributes
\* HookTerminal saved, and the mouse-tracking modes disabled
C13_SigtermRestores ==
    [][ SigtermStep =>
          /\ pendingClose'
          /\ tty'.attrs = "cooked"
          /\ tty'.attrs = tty.tio
          /\ Terminal(tty'.out).modes \cap MouseModes = {} ]_vars

\* the DEC private mode reset of the wire protocol: CSI ? n l
DecReset(cmd) == CSI \o << "?" >> \o cmd \o << "l" >>

\* what the wire protocol has HookTerminal and UnhookTerminal emit
HookWire ==
    DEC_PM_SET(<< "1", "0", "4", "9" >>) \o CSI \o << "0", "m" >>
    \o ERASE_CMD(<< "2" >>)
    \o DEC_PM_SET(<< "1", "0", "0", "3" >>) \o DEC_PM_SET(<< "1", "0", "1", "5" >>)
    \o DEC_PM_SET(<< "1", "0", "0", "6" >>) \o DecReset(<< "2", "5" >>)
UnhookWire ==
    DecReset(<< "1", "0", "4", "9" >>) \o CSI \o << "0", "m" >>
    \o ERASE_CMD(<< "2" >>)
    \o DecReset(<< "1", "0", "0", "3" >>) \o DecReset(<< "1", "0", "1", "5" >>)
    \o DecReset(<< "1", "0", "0", "6" >>) \o DEC_PM_SET(<< "2", "5" >>)

\* a step of Window_Init of the terminal host
HookStep == host = "terminal" /\ pc["main"] = "start" /\ pc'["main"] # "start"

\* C14: HookTerminal writes 1049 set, SGR reset, erase-all, 1003, 1015 and
\* 1006 set, 25 reset, and UnhookTerminal writes 1049 reset, SGR reset,
\* erase-all, 1003, 1015 and 1006 reset, 25 set, where set is CSI ? n h and
\* reset is CSI ? n l
C14_WireProtocol ==
    [][ /\ HookStep => tty'.out = tty.out \o HookWire
        /\ SigtermStep => tty'.out = tty.out \o UnhookWire ]_vars

\* the terminal host reading its input, frame after frame
InitInput == Term_Started("input", MaxInputReads, 0)
NextInput ==
    \/ Term_Window_ProcessEvents
    \/ Term_TestClose
    \/ Term_NoInput
    \/ Term_Input
SpecInput == InitInput /\ [][NextInput]_vars

\* the last call of Window_ProcessEvents read the bytes bs and is over
HasRead(bs) ==
    /\ host = "terminal"
    /\ pc["main"] \in {"loop", "crashed"}
    /\ pe.input.bytes = bs

\* the number written by a sequence of digit characters
Number(ds) == VT_Number(ds)

\* C15: after a read of one complete SGR mouse report ESC [ < B ; X ; Y T
\* the pump has set the pointer to (X, 2Y) and, when B begins with 0, has
\* set the left button pressed for T = M and released for T = m, and did
\* nothing else; ESC [ < 0 ; 10 ; 5 M gives the pointer (10, 10) and Left
\* pressed
C15_MouseReport ==
    \A r \in MouseReports :
        HasRead(SGR(r.B, r.X, r.Y, r.T)) =>
            /\ pc["main"] = "loop"
            /\ pe.raised =
                 << << "Pointer_SetPosition", Number(r.X), 2 * Number(r.Y) >> >>
                 \o IF r.B[1] = "0"
                    THEN << << "Input_SetNonRepeatable", KEY("CCMOUSE_L"),
                               IF r.T = "M" THEN 1 ELSE 0 >> >>
                    ELSE << >>

\* C16: after a read of a malformed or partial escape sequence the pump has
\* returned normally and has raised nothing
C16_MalformedIgnored ==
    \A bs \in Malformed :
        HasRead(bs) => pc["main"] = "loop" /\ pe.raised = << >>

\* C17: after a read of one printable byte the pump has raised a press of
\* the upcased letter for a lowercase letter, a press and a release of
\* space for a space, and one press and no release for any other printable
\* byte
C17_PrintableIsPress ==
    \A b \in 32..126 :
        HasRead(<< b >>) =>
            IF b >= Ord("a") /\ b <= Ord("z")
            THEN pe.raised = << << "Input_SetPressed", b - 32, 0 >> >>
            ELSE IF b = Ord(" ")
            THEN pe.raised = << << "Input_SetPressed", KEY("CCKEY_SPACE"), 0 >>,
                                << "Input_SetReleased", KEY("CCKEY_SPACE"), 0 >> >>
            ELSE Len(pe.raised) = 1 /\ pe.raised[1][1] = "Input_SetPressed"

\* the terminal host drawing frames between calls of the pump
InitDraw == Term_Started("draw", 0, MaxFrames)
NextDraw ==
    \/ Window_DrawFramebuffer
    \/ Term_Window_ProcessEvents
    \/ Term_TestClose
    \/ Term_NoInput
SpecDraw == InitDraw /\ [][NextDraw]_vars

\* Window_DrawFramebuffer has been called, and what its last call wrote
HasDrawn == tty.frame.start > 0
Drawn == SubSeq(tty.out, tty.frame.start, Len(tty.out))

\* the number of half-block glyphs in a sequence of characters
Glyphs(cs) == Cardinality({i \in 1..Len(cs) : cs[i] = "x84"})

\* a cell on the wire: background colour, foreground colour, position, glyph
CellWire(bg, fg, row, col) ==
    CSI \o << "4", "8", ";", "2", ";" >> \o Dec(bg.R) \o << ";" >> \o Dec(bg.G)
        \o << ";" >> \o Dec(bg.B) \o << "m" >>
    \o CSI \o << "3", "8", ";", "2", ";" >> \o Dec(fg.R) \o << ";" >> \o Dec(fg.G)
        \o << ";" >> \o Dec(fg.B) \o << "m" >>
    \o CSI \o Dec(row) \o << ";" >> \o Dec(col) \o << "H" >>
    \o << "xE2", "x96", "x84" >>

\* the cells of a rectangle: for each pair of rows from the top row rounded
\* down to even, and each column, the cell of the pixel (x, y) above the
\* pixel (x, y + 1), as << x, y >> in the order they are written
CellsOf(r) ==
    LET y0    == IF r.y % 2 = 0 THEN r.y ELSE r.y - 1
        pairs == (r.y + r.height - y0 + 1) \div 2
    IN  [k \in 1..(pairs * r.width) |->
            << r.x + ((k - 1) % r.width), y0 + 2 * ((k - 1) \div r.width) >>]

RECURSIVE WireOf(_, _, _)
WireOf(bmp, cells, k) ==
    IF k > Len(cells) THEN << >>
    ELSE CellWire(bmp[cells[k]], bmp[<< cells[k][1], cells[k][2] + 1 >>],
                  cells[k][2] \div 2, cells[k][1])
         \o WireOf(bmp, cells, k + 1)

\* C18 as stated: for a dirty rectangle of 2 by 2 pixels exactly one cell is
\* written, with the top pixel as background and the bottom pixel as
\* foreground, at row = pixel row / 2
C18_OneCellPer2x2 ==
    HasDrawn /\ tty.frame.r.width = 2 /\ tty.frame.r.height = 2 =>
        LET r == tty.frame.r IN
        /\ Glyphs(Drawn) = 1
        /\ Drawn = CellWire(tty.frame.bmp[<< r.x, RowStart(r) >>],
                            tty.frame.bmp[<< r.x, RowStart(r) + 1 >>],
                            RowStart(r) \div 2, r.x)

\* C18: Window_DrawFramebuffer writes one cell for each column of the
\* rectangle and each pair of rows, the pairs starting at the top row
\* rounded down to even: background the pixel (x, y), foreground the pixel
\* (x, y + 1), at row y / 2 and column x; a rectangle one column wide and
\* two rows high on an even row gives exactly one cell, one of 2 by 2 gives
\* two cells on an even row and four on an odd row
C18_OneCellPerColumnAndRowPair ==
    HasDrawn =>
        LET r == tty.frame.r IN
        /\ Drawn = WireOf(tty.frame.bmp, CellsOf(r), 1)
        /\ Glyphs(Drawn) = Len(CellsOf(r))
        /\ r.width = 1 /\ r.height = 2 /\ r.y % 2 = 0 => Glyphs(Drawn) = 1
        /\ r.width = 2 /\ r.height = 2 =>
              Glyphs(Drawn) = IF r.y % 2 = 0 THEN 2 ELSE 4

\* a 2 by 2 rectangle on an odd row has been drawn as four cells
C18_FourCells ==
    /\ HasDrawn
    /\ tty.frame.r = [x |-> 0, y |-> 1, width |-> 2, height |-> 2]
    /\ Glyphs(Drawn) = 4

\* the window looper is in the call of Events_Push it made for the message
\* msg["win"], with the record event["win"]
Pushing(what) ==
    /\ pc["win"] \in {"push_lock", "push_body", "push_unlock"}
    /\ msg["win"].what = what

\* the pump leaves its switch having handled a record of the given type
Dispatching(type) ==
    /\ pc["main"] = "pe_switch"
    /\ pc'["main"] # "pe_switch"
    /\ event["main"].type = type

\* C19: the record pushed for a resize message with width w and height h is
\* Resized(w + 1, h + 1) (Resized(1024, 768) for 1023 and 767); the pump's
\* dispatch of a Resized record stores its two values as the window's width
\* and height and raises the resize notification
C19_ResizePlusOne ==
    /\ [](Pushing("B_WINDOW_RESIZED") =>
            /\ event["win"].type = CC_WIN_RESIZED
            /\ event["win"].v1 = msg["win"].a + 1
            /\ event["win"].v2 = msg["win"].b + 1
            /\ (msg["win"].a = 1023 /\ msg["win"].b = 767 =>
                  event["win"].v1 = 1024 /\ event["win"].v2 = 768))
    /\ [][Dispatching(CC_WIN_RESIZED) =>
            /\ WindowInfo' = [WindowInfo EXCEPT !.Width = event["main"].v1,
                                                !.Height = event["main"].v2]
            /\ raised' = Append(raised, << "WindowEvents.Resized", 0, 0 >>)]_vars

\* the pump has dispatched the record of a resize message with 1023 and 767:
\* the window is 1024 by 768, and was 320 by 200 before
C19_Resized1024x768 ==
    /\ host = "haiku"
    /\ Len(pulled) > 0
    /\ pulled[Len(pulled)].type = CC_WIN_RESIZED
    /\ pc["main"] = "pull_lock"
    /\ WindowInfo.Width = 1024
    /\ WindowInfo.Height = 768
    /\ << "WindowEvents.Resized", 0, 0 >> = raised[Len(raised)]

\* C20: the record pushed for a wheel message with delta d is MouseScroll(-d)
\* (-1 for +1), and the pump's dispatch of a MouseScroll record raises the
\* wheel notification with the record's value as it is
C20_WheelNegatedOnce ==
    /\ [](Pushing("B_MOUSE_WHEEL_CHANGED") =>
            /\ event["win"].type = CC_MOUSE_SCROLL
            /\ event["win"].v1 = 0 - msg["win"].a
            /\ (msg["win"].a = 1 => event["win"].v1 = -1))
    /\ [][Dispatching(CC_MOUSE_SCROLL) =>
            raised' = Append(raised, << "Mouse_ScrollWheel", event["main"].v1, 0 >>)]_vars

\* the pump has raised the wheel notification with -1 for the record of a
\* wheel message with delta +1
C20_ScrolledMinusOne ==
    /\ host = "haiku"
    /\ Len(pulled) > 0
    /\ pulled[Len(pulled)].type = CC_MOUSE_SCROLL
    /\ pulled[Len(pulled)].v1 = -1
    /\ pc["main"] = "pull_lock"
    /\ Len(raised) > 0
    /\ raised[Len(raised)] = << "Mouse_ScrollWheel", -1, 0 >>

\* a key-down message with a key code and text bytes that can be decoded
FullKeyDown(m) ==
    /\ m.what = "B_KEY_DOWN"
    /\ m.ok
    /\ m.hasBytes
    /\ Convert_Utf8ToCodepoint(m.bytes).used # 0

PushStep(t) == pc[t] = "push_body" /\ pc'[t] = "push_unlock"

\* a step of Events_Pull (lines 59-75)
PullStep ==
    /\ pc["main"] \in {"pull_lock", "pull_body", "pull_unlock"}
    /\ pc'["main"] # pc["main"]

\* C22: after Events_Init, under every interleaving of pushes and pulls,
\* 0 <= events_count <= events_capacity and events_capacity is at least
\* EVENTS_DEFAULT_MAX; the capacity and the storage pointer change only in
\* Events_Push's critical section when the queue is full, the capacity then
\* grows by exactly 20 and never shrinks; Events_Pull changes neither; and
\* Events_Push never stores at or past events_capacity
C22_CapacityBounds ==
    /\ [](events_mutex.created =>
            /\ 0 <= events_count /\ events_count <= events_capacity
            /\ events_capacity >= EVENTS_DEFAULT_MAX
            /\ Len(events_list.mem) = events_capacity
            /\ fault # "oob_write")
    /\ [][events_capacity' # events_capacity \/ events_list'.ptr # events_list.ptr =>
            \E t \in Producers :
                /\ PushStep(t)
                /\ events_mutex.owner = t
                /\ events_count = events_capacity
                /\ events_capacity' = events_capacity + 20]_vars
    /\ [][events_capacity' >= events_capacity]_vars
    /\ [][PullStep => /\ events_capacity' = events_capacity
                      /\ events_list'.ptr = events_list.ptr]_vars
    /\ [][\A t \in Producers : PushStep(t) =>
            /\ events_count < events_capacity'
            /\ events_list'.mem[events_count + 1] = event[t]]_vars

\* the storage has grown after records were pulled, and holds more records
\* than the default storage could
C22_GrownWhilePulling ==
    /\ events_capacity = 2 * EVENTS_DEFAULT_MAX
    /\ events_list.ptr = "heap"
    /\ Len(pulled) > 0
    /\ events_count > EVENTS_DEFAULT_MAX

\* the terminal host alone, from program start, with no data on standard
\* input: the terminal is resized up to MaxResizes times
MaxResizes == 3
InitResize == \E n \in 1..MaxResizes : Term_Boot(n, MaxSigterm, 0)
NextResize ==
    \/ Term_Window_Init
    \/ Term_DoCreateWindow
    \/ Term_Resized
    \/ sigwinch_handler
    \/ sigterm_handler
    \/ Term_Window_ProcessEvents
    \/ Term_ClearResize
    \/ Term_Resize
    \/ Term_TestClose
    \/ Term_ClearClose
    \/ Term_Close
    \/ Term_NoInput
SpecResize == InitResize /\ [][NextResize]_vars

\* the stored geometry is that of the terminal's current size
Synced ==
    /\ Window_Main.Width = tty.size[1]
    /\ Window_Main.Height = 2 * tty.size[2]

\* every SIGWINCH of the run has been delivered
Settled == host = "terminal" /\ sigs.winch = 0 /\ ~sigs.pending

\* the pump is between two calls, or inside one
AtLoop == pc["main"] = "loop"
InTick == pc["main"] \in {"t836", "t837", "t841", "t842", "t843", "t848"}

\* a step of sigwinch_handler
WinchStep == sigs.pending /\ ~sigs'.pending

\* C23: on the terminal host no resize is lost: once the handlers are
\* installed, whenever no SIGWINCH is pending, pendingResize is false and
\* the pump is not between clearing the flag and querying the terminal, the
\* stored geometry is the terminal's current size; once a call of
\* Window_ProcessEvents has begun and returned after the last SIGWINCH, the
\* geometry is width = cols, height = 2 * rows and pendingResize is false;
\* and sigwinch_handler only sets the flag
C23_NoResizeLost ==
    /\ [](Hooked /\ ~sigs.pending /\ ~pendingResize /\ pc["main"] # "t837" => Synced)
    /\ [](Settled /\ AtLoop => [](InTick => [](AtLoop => Synced /\ ~pendingResize)))
    /\ [][WinchStep =>
            /\ pendingResize'
            /\ UNCHANGED << Window_Main, DisplayInfo, ws, tty, pc, pendingClose,
                            raised, pe >>]_vars

\* the terminal's size has changed to 100 by 30, every SIGWINCH has been
\* delivered, and a call of the pump has raised the only Resized so far and
\* left the geometry 100 by 60
C23_ResizedAfterTick ==
    /\ Settled /\ AtLoop
    /\ sigs.term = MaxSigterm
    /\ tty.size = << 100, 30 >>
    /\ Window_Main.Width = 100 /\ Window_Main.Height = 60
    /\ raised = << << "WindowEvents.Resized", 0, 0 >> >>
    /\ pe.raised = << << "WindowEvents.Resized", 0, 0 >> >>
    /\ Synced /\ ~pendingResize

\* the terminal host alone, from program start, with MaxSignals signals of
\* each kind and data on standard input
MaxSignals == 2
InitTick == Term_Boot(MaxSignals, MaxSignals, MaxReads)
SpecTick == InitTick /\ [][Term_Next]_vars

ResizedNote == << "WindowEvents.Resized", 0, 0 >>
ClosingNote == << "WindowEvents.Closing", 0, 0 >>

\* the pump takes a step from label a
PumpStep(a) == pc["main"] = a /\ pc'["main"] # a

\* C24: in one call of the terminal pump the flags are handled in a fixed
\* order, each at most once: Resized is raised at most once and before
\* anything else, Closing at most once and last, with no input read in that
\* call; a pending resize is cleared and raised as Resized before
\* pendingClose is tested; a pending close is cleared, sets Exists to false,
\* raises Closing and ends the call without a poll or read; input is read
\* only after the test of line 841 found no close pending
C24_TickOrder ==
    /\ [](host = "terminal" =>
            /\ \A i \in 1..Len(pe.raised) :
                  /\ pe.raised[i] = ResizedNote => i = 1
                  /\ pe.raised[i] = ClosingNote =>
                        /\ i = Len(pe.raised)
                        /\ pe.input = NoInput
                        /\ pc["main"] = "loop"
                        /\ \A j \in 1..(i - 1) : pe.raised[j] = ResizedNote
            /\ pc["main"] \in {"t836", "t837"} => pe.raised = << >>
            /\ pc["main"] \in {"t841", "t842", "t843", "t848"} =>
                  pe.raised \in {<< >>, << ResizedNote >>})
    /\ [][host = "terminal" =>
            /\ PumpStep("loop") =>
                  /\ pc'["main"] = IF pendingResize THEN "t836" ELSE "t841"
                  /\ pe'.raised = << >> /\ pe'.input = NoInput
            /\ PumpStep("t836") => pc'["main"] = "t837" /\ ~pendingResize'
            /\ PumpStep("t837") =>
                  /\ pc'["main"] = "t841"
                  /\ raised' = Append(raised, ResizedNote)
                  /\ UNCHANGED << pendingClose, sigs >>
            /\ PumpStep("t841") =>
                  /\ pc'["main"] = IF pendingClose THEN "t842" ELSE "t848"
                  /\ UNCHANGED << raised, pe, termvars >>
            /\ PumpStep("t842") => pc'["main"] = "t843" /\ ~pendingClose'
            /\ PumpStep("t843") =>
                  /\ pc'["main"] = "loop"
                  /\ ~Window_Main'.Exists
                  /\ raised' = Append(raised, ClosingNote)
                  /\ UNCHANGED << sigs, tty >>
            /\ sigs'.reads # sigs.reads => PumpStep("t848") /\ ~pe.closing]_vars

\* two changes of size and two SIGTERMs have been answered by one call of
\* the pump that raised Resized, then Closing, and read no input
C24_BothOnce ==
    /\ host = "terminal" /\ pc["main"] = "loop"
    /\ sigs.winch = 0 /\ sigs.term = 0 /\ sigs.reads = MaxReads
    /\ ~sigs.pending /\ ~pendingResize /\ ~pendingClose
    /\ raised = << ResizedNote, ClosingNote >>
    /\ pe.raised = raised
    /\ ~Window_Main.Exists

====
